---- MODULE Spec2Model ----
(***************************************************************************)
(* Model of the ICD-10 lookup service (src/lib/icd10-lookup.ts).           *)
(*                                                                         *)
(* Strings are sequences of one-character strings, so that normalisation,  *)
(* tokenisation and prefix tests are computed character by character.      *)
(* A JavaScript Map is a sequence of [key, val] records in insertion       *)
(* order.  Array indices are 1-based here (0-based in the source).         *)
(* A nullable value is None (<<>>) or Some(v) (<<v>>).                     *)
(*                                                                         *)
(* JavaScript runs each synchronous segment to completion: an action is    *)
(* one such segment (from a call to its first await, from the resumption   *)
(* after an await to the return).                                          *)
(***************************************************************************)
EXTENDS Integers, Sequences, FiniteSets, TLC

\* ---------------------------------------------------------------- bounds
MaxEntries == 2      \* longest source catalog
MaxResults == 3      \* largest maxResults argument
NumCallers == 2      \* callers whose operations may overlap
MaxAttempts == 3     \* load attempts explored
MaxCodeLen == 3      \* longest enumerated code string
MaxTextLen == 3      \* longest enumerated text
MaxLlmCalls == 5     \* processChunk calls explored in one batch
MaxTicks == 2        \* half periods of the cache lifetime the clock advances

\* ------------------------------------------------------------- utilities
None == <<>>
Some(v) == <<v>>

Min(a, b) == IF a < b THEN a ELSE b

\* String.prototype.startsWith
StartsWith(s, p) == Len(p) =< Len(s) /\ SubSeq(s, 1, Len(p)) = p

\* String.prototype.slice(0, n) for 0 <= n
Slice0(s, n) == SubSeq(s, 1, Min(n, Len(s)))

LowerLetters ==
  <<"a", "b", "c", "d", "e", "f", "g", "h", "i", "j", "k", "l", "m",
    "n", "o", "p", "q", "r", "s", "t", "u", "v", "w", "x", "y", "z">>
UpperLetters ==
  <<"A", "B", "C", "D", "E", "F", "G", "H", "I", "J", "K", "L", "M",
    "N", "O", "P", "Q", "R", "S", "T", "U", "V", "W", "X", "Y", "Z">>
Digits == {"0", "1", "2", "3", "4", "5", "6", "7", "8", "9"}

LetterPos(c, letters) == CHOOSE i \in 1..Len(letters) : letters[i] = c
IsIn(c, letters) == \E i \in 1..Len(letters) : letters[i] = c

\* String.prototype.toUpperCase / toLowerCase, one character
UpperChar(c) == IF IsIn(c, LowerLetters) THEN UpperLetters[LetterPos(c, LowerLetters)] ELSE c
LowerChar(c) == IF IsIn(c, UpperLetters) THEN LowerLetters[LetterPos(c, UpperLetters)] ELSE c

toUpperCase(s) == [i \in 1..Len(s) |-> UpperChar(s[i])]
toLowerCase(s) == [i \in 1..Len(s) |-> LowerChar(s[i])]

\* regex classes \s and \w
IsSpace(c) == c \in {" ", "\t"}
IsWord(c) == IsIn(c, LowerLetters) \/ IsIn(c, UpperLetters) \/ c \in Digits \/ c = "_"

\* ---------------------------------------------------------- normalizeCode
\* the character class of normalizeCode's regex without the hyphen: /[.\s]/g
IsCodeNoiseNoHyphen(c) == c = "." \/ IsSpace(c)

\* the character class /[.\s-]/
IsCodeNoise(c) == c = "." \/ c = "-" \/ IsSpace(c)
KeepCodeChar(c) == ~IsCodeNoise(c)

normalizeCode(code) == SelectSeq(toUpperCase(code), KeepCodeChar)

\* ------------------------------------------------------- extractKeywords
STOP_WORDS ==
  { <<"t","h","e">>, <<"a","n","d">>, <<"f","o","r">>, <<"w","i","t","h">>,
    <<"w","i","t","h","o","u","t">>, <<"o","t","h","e","r">>,
    <<"d","u","e">>, <<"n","o","t">>,
    <<"u","n","s","p","e","c","i","f","i","e","d">>,
    <<"s","p","e","c","i","f","i","e","d">>, <<"t","y","p","e">>,
    <<"f","r","o","m">>, <<"t","h","a","t">>, <<"t","h","i","s">>,
    <<"h","a","s">>, <<"h","a","v","e">>, <<"a","r","e">>, <<"w","a","s">>,
    <<"w","e","r","e">>, <<"b","e","e","n">>, <<"b","e","i","n","g">>,
    <<"h","a","v","i","n","g">>, <<"h","a","d">>, <<"d","o","e","s">>,
    <<"d","i","d">>, <<"b","u","t">>, <<"c","a","n">>,
    <<"c","o","u","l","d">>, <<"m","a","y">>, <<"m","i","g","h","t">>,
    <<"m","u","s","t">>, <<"s","h","a","l","l">>,
    <<"s","h","o","u","l","d">>, <<"w","i","l","l">>,
    <<"w","o","u","l","d">> }

\* .replace(/[^\w\s]/g, ' ')
ReplacePunct(s) == [i \in 1..Len(s) |-> IF IsWord(s[i]) \/ IsSpace(s[i]) THEN s[i] ELSE " "]

\* .split(/\s+/): the pieces between maximal whitespace runs; a leading or
\* trailing run yields an empty piece, the empty string yields <<"">>.
RECURSIVE SplitFrom(_, _, _, _)
SplitFrom(s, i, cur, acc) ==
  IF i > Len(s) THEN Append(acc, cur)
  ELSE IF IsSpace(s[i])
       THEN IF i > 1 /\ IsSpace(s[i-1])
            THEN SplitFrom(s, i + 1, cur, acc)
            ELSE SplitFrom(s, i + 1, <<>>, Append(acc, cur))
       ELSE SplitFrom(s, i + 1, Append(cur, s[i]), acc)

SplitWhitespace(s) == SplitFrom(s, 1, <<>>, <<>>)

\* .filter(word => word.length >= 2): the length floor off by one
LongEnoughTwo(w) == Len(w) >= 2

LongEnough(w) == Len(w) >= 3
NotStopWord(w) == w \notin STOP_WORDS

\* extractKeywords without the leading .toLowerCase()
extractKeywordsCaseSensitive(text) ==
  SelectSeq(SelectSeq(SplitWhitespace(ReplacePunct(text)), LongEnough),
            NotStopWord)

extractKeywords(text) ==
  SelectSeq(SelectSeq(SplitWhitespace(ReplacePunct(toLowerCase(text))), LongEnough),
            NotStopWord)

\* ------------------------------------------------------------------ Map
MapHas(m, k) == \E i \in 1..Len(m) : m[i].key = k
MapPos(m, k) == CHOOSE i \in 1..Len(m) : m[i].key = k
MapSet(m, k, v) ==
  IF MapHas(m, k) THEN [m EXCEPT ![MapPos(m, k)].val = v]
  ELSE Append(m, [key |-> k, val |-> v])
MapGet(m, k) == m[MapPos(m, k)].val
MapKeys(m) == {m[i].key : i \in 1..Len(m)}

\* ------------------------------------------------------------- inputs
\* Records {code, desc} the source file may hold: codes that differ only in
\* case and punctuation, descriptions with repeated words, stop words,
\* short words and punctuation.
EntryPool ==
  { [code |-> <<"J","1","8",".","9">>,
      desc |-> <<"c","a","r">>],
    [code |-> <<"J","1","8",".","1">>,
      desc |-> <<"c","a","r","d"," ","c","a","r","d"," ","c","a","r","d"," ","c","a","r","d">>],
    [code |-> <<"j","1","8","-","9">>,
      desc |-> <<"T","h","e"," ","c","a","r">>],
    [code |-> <<"J","1","8">>,
      desc |-> <<"C","a","r",","," ","c","a","r">>],
    [code |-> <<"A","0">>,
      desc |-> <<"o","f">>],
    [code |-> <<"J","4","4",".","0">>,
      desc |-> <<"c","a","r","d","-","c","a","r">>] }

RECURSIVE SeqsUpTo(_, _)
SeqsUpTo(S, n) ==
  IF n = 0 THEN {<<>>}
  ELSE LET shorter == SeqsUpTo(S, n - 1)
       IN shorter \cup {Append(q, e) : q \in {p \in shorter : Len(p) = n - 1}, e \in S}

\* the source files explored: up to MaxEntries records, no record written twice
Catalogs ==
  {c \in SeqsUpTo(EntryPool, MaxEntries) :
     \A i, j \in 1..Len(c) : c[i] = c[j] => i = j}

\* Free-text queries and codes handed to the query operations.
QueryPool ==
  { <<"c","a","r">>,
    <<"c","a","r","d">>,
    <<"C","A","R"," ","t","h","e">>,
    <<"c","a","r"," ","c","a","r">>,
    <<>>,
    <<"!","!","!">>,
    <<"c","a">>,
    <<"c","a","r","d"," ","c","a","r">>,
    <<"t","h","e">>,
    <<"1","2","3">> }

CodePool ==
  { <<"J","1","8",".","9","9">>,
    <<"J","1","8",".","9">>,
    <<"j","1","8">>,
    <<"J","1">>,
    <<"J","1","8",".","0">>,
    <<"1","2","3">>,
    <<"j","-","1">>,
    <<>> }

\* Code lists handed to batchValidateCodes: empty, a known and an unknown
\* code, a repeated code.
BatchPool ==
  { <<>>,
    << <<"J","1","8",".","9">>, <<"Z","Z","Z","Z","Z">> >>,
    << <<"J","1","8",".","9">>, <<"j","1","8">>, <<"J","1","8",".","9">> >> }

\* What a load attempt meets: readFileSync throws, JSON.parse throws, the
\* parsed value is not an array of {code, desc} strings (entries.map throws),
\* or the file parses to the catalog.
ReadOutcomes == {"ENOENT", "SyntaxError", "TypeError", "ok"}

\* ----------------------------------------------------------- loadDatabase
\* entries.map(e => ({code, desc, normalizedCode, keywords}))
MapEntries(entries) ==
  [i \in 1..Len(entries) |->
     [code |-> entries[i].code,
      desc |-> entries[i].desc,
      normalizedCode |-> normalizeCode(entries[i].code),
      keywords |-> extractKeywords(entries[i].desc)]]

\* The code index keyed by the code as published instead of its normal form.
RECURSIVE CodeIndexRawKeys(_, _, _)
CodeIndexRawKeys(db, i, m) ==
  IF i > Len(db) THEN m
  ELSE CodeIndexRawKeys(db, i + 1, MapSet(m, db[i].code, i))

\* icd10Database.forEach((entry, idx) => codeIndex.set(entry.normalizedCode, idx))
RECURSIVE CodeIndexFrom(_, _, _)
CodeIndexFrom(db, i, m) ==
  IF i > Len(db) THEN m
  ELSE CodeIndexFrom(db, i + 1, MapSet(m, db[i].normalizedCode, i))

BuildCodeIndex(db) == CodeIndexFrom(db, 1, <<>>)

\* The keyword index with set(keyword, [idx]) in place of push(idx): a later
\* entry replaces the earlier ones listed under the keyword.
RECURSIVE IndexKeywordsOverwrite(_, _, _, _)
IndexKeywordsOverwrite(kws, j, idx, m) ==
  IF j > Len(kws) THEN m
  ELSE IndexKeywordsOverwrite(kws, j + 1, idx, MapSet(m, kws[j], <<idx>>))

\* for (const keyword of entry.keywords) { if (!has) set(keyword, []); get(keyword).push(idx) }
RECURSIVE IndexKeywords(_, _, _, _)
IndexKeywords(kws, j, idx, m) ==
  IF j > Len(kws) THEN m
  ELSE LET withKey == IF MapHas(m, kws[j]) THEN m ELSE MapSet(m, kws[j], <<>>)
       IN IndexKeywords(kws, j + 1, idx,
                        MapSet(withKey, kws[j], Append(MapGet(withKey, kws[j]), idx)))

RECURSIVE KeywordIndexFrom(_, _, _)
KeywordIndexFrom(db, i, m) ==
  IF i > Len(db) THEN m
  ELSE KeywordIndexFrom(db, i + 1, IndexKeywords(db[i].keywords, 1, i, m))

BuildKeywordIndex(db) == KeywordIndexFrom(db, 1, <<>>)

\* Executor that fills icd10Database record by record instead of assigning
\* the finished map: a first record that throws leaves the database an empty
\* list and the indexes null.
ExecutorAssignsEarly(outcome, entries, cur) ==
  IF outcome = "ok"
  THEN LET db == MapEntries(entries)
       IN [icd10Database |-> Some(db),
           codeIndex |-> Some(BuildCodeIndex(db)),
           keywordIndex |-> Some(BuildKeywordIndex(db)),
           settled |-> "fulfilled"]
  ELSE [icd10Database |-> IF outcome = "TypeError" THEN Some(<<>>) ELSE cur.icd10Database,
        codeIndex |-> cur.codeIndex,
        keywordIndex |-> cur.keywordIndex,
        settled |-> "rejected"]

\* The promise executor of loadDatabase: the three module variables after it
\* has run on a source that behaves as `outcome`, and how the promise
\* settles.  Every throw (read, parse, map) happens before the first
\* assignment, so a rejected load leaves the variables as they were.
\* The executor with a catch block that logs and resolves instead of
\* rejecting: a failed read settles the promise as fulfilled.
ExecutorSwallowsError(outcome, entries, cur) ==
  IF outcome = "ok"
  THEN LET db == MapEntries(entries)
       IN [icd10Database |-> Some(db),
           codeIndex |-> Some(BuildCodeIndex(db)),
           keywordIndex |-> Some(BuildKeywordIndex(db)),
           settled |-> "fulfilled"]
  ELSE [icd10Database |-> cur.icd10Database,
        codeIndex |-> cur.codeIndex,
        keywordIndex |-> cur.keywordIndex,
        settled |-> "fulfilled"]

Executor(outcome, entries, cur) ==
  IF outcome = "ok"
  THEN LET db == MapEntries(entries)
       IN [icd10Database |-> Some(db),
           codeIndex |-> Some(BuildCodeIndex(db)),
           keywordIndex |-> Some(BuildKeywordIndex(db)),
           settled |-> "fulfilled"]
  ELSE [icd10Database |-> cur.icd10Database,
        codeIndex |-> cur.codeIndex,
        keywordIndex |-> cur.keywordIndex,
        settled |-> "rejected"]

\* -------------------------------------------------------------- lookupCode
\* lookupCode with `codeIndex.get(normalized) ?? 0` in place of the
\* `index === undefined` test: a miss falls back to the first entry.
lookupCodeFallsBack(db, cIndex, code) ==
  LET normalized == normalizeCode(code)
  IN IF cIndex # None /\ MapHas(cIndex[1], normalized) /\ db # None
     THEN Some(db[1][MapGet(cIndex[1], normalized)])
     ELSE IF db # None /\ Len(db[1]) > 0 THEN Some(db[1][1]) ELSE None

\* The body of lookupCode after `await loadDatabase()`: Some(entry) or None (null).
lookupCode(db, cIndex, code) ==
  LET normalized == normalizeCode(code)
  IN IF cIndex # None /\ MapHas(cIndex[1], normalized) /\ db # None
     THEN Some(db[1][MapGet(cIndex[1], normalized)])
     ELSE None

\* ----------------------------------------------------- searchByDescription
\* scores.set(idx, (scores.get(idx) || 0) + w) for each idx of indices, in order
RECURSIVE AddScores(_, _, _, _)
AddScores(scores, indices, j, w) ==
  IF j > Len(indices) THEN scores
  ELSE LET idx == indices[j]
           old == IF MapHas(scores, idx) THEN MapGet(scores, idx) ELSE 0
       IN AddScores(MapSet(scores, idx, old + w), indices, j + 1, w)

\* for (const [indexedKeyword, indices] of keywordIndex.entries()) ... + 1
RECURSIVE AddPrefixScores(_, _, _, _)
AddPrefixScores(scores, kIndex, p, keyword) ==
  IF p > Len(kIndex) THEN scores
  ELSE LET hit == StartsWith(kIndex[p].key, keyword) /\ kIndex[p].key # keyword
       IN AddPrefixScores(IF hit THEN AddScores(scores, kIndex[p].val, 1, 1) ELSE scores,
                          kIndex, p + 1, keyword)

\* ScoreKeywords with an exact match weighted like a prefix match: `+ 1`
RECURSIVE ScoreKeywordsExactOne(_, _, _, _)
ScoreKeywordsExactOne(scores, kIndex, qk, j) ==
  IF j > Len(qk) THEN scores
  ELSE LET exactMatches == IF MapHas(kIndex, qk[j]) THEN MapGet(kIndex, qk[j]) ELSE <<>>
           afterExact == AddScores(scores, exactMatches, 1, 1)
       IN ScoreKeywordsExactOne(AddPrefixScores(afterExact, kIndex, 1, qk[j]),
                                kIndex, qk, j + 1)

\* for (const keyword of queryKeywords) { exact + 3; prefix + 1 }
RECURSIVE ScoreKeywords(_, _, _, _)
ScoreKeywords(scores, kIndex, qk, j) ==
  IF j > Len(qk) THEN scores
  ELSE LET exactMatches == IF MapHas(kIndex, qk[j]) THEN MapGet(kIndex, qk[j]) ELSE <<>>
           afterExact == AddScores(scores, exactMatches, 1, 3)
       IN ScoreKeywords(AddPrefixScores(afterExact, kIndex, 1, qk[j]), kIndex, qk, j + 1)

\* The comparator reversed (a[1] - b[1]): ascending by score.
RECURSIVE InsertAscending(_, _)
InsertAscending(sorted, e) ==
  IF sorted = <<>> THEN <<e>>
  ELSE IF Head(sorted).val =< e.val
       THEN <<Head(sorted)>> \o InsertAscending(Tail(sorted), e)
       ELSE <<e>> \o sorted

\* Array.prototype.sort((a, b) => b[1] - a[1]): stable, descending by score
RECURSIVE InsertByScore(_, _)
InsertByScore(sorted, e) ==
  IF sorted = <<>> THEN <<e>>
  ELSE IF Head(sorted).val >= e.val
       THEN <<Head(sorted)>> \o InsertByScore(Tail(sorted), e)
       ELSE <<e>> \o sorted

RECURSIVE SortFrom(_, _, _)
SortFrom(arr, i, sorted) ==
  IF i > Len(arr) THEN sorted
  ELSE SortFrom(arr, i + 1, InsertByScore(sorted, arr[i]))

SortByScore(arr) == SortFrom(arr, 1, <<>>)

searchByDescription(db, kIndex, query, maxResults) ==
  IF db = None \/ kIndex = None THEN <<>>
  ELSE LET queryKeywords == extractKeywords(query)
       IN IF Len(queryKeywords) = 0 THEN <<>>
          ELSE LET scores == ScoreKeywords(<<>>, kIndex[1], queryKeywords, 1)
                   top == Slice0(SortByScore(scores), maxResults)
               IN [i \in 1..Len(top) |->
                     [code |-> db[1][top[i].key].code,
                      description |-> db[1][top[i].key].desc,
                      score |-> top[i].val,
                      matchType |-> "keyword"]]

\* -------------------------------------------------------- findSimilarCodes
\* The scan excluding the entry equal to the prefix instead of the entry equal
\* to the normalized input.
RECURSIVE ScanEntriesExcludePrefix(_, _, _, _, _, _)
ScanEntriesExcludePrefix(db, i, prefix, normalized, maxResults, results) ==
  IF i > Len(db) \/ Len(results) >= maxResults THEN results
  ELSE LET entry == db[i]
           hit == StartsWith(entry.normalizedCode, prefix)
                    /\ entry.normalizedCode # prefix
       IN ScanEntriesExcludePrefix(db, i + 1, prefix, normalized, maxResults,
                      IF hit THEN Append(results,
                                         [code |-> entry.code,
                                          description |-> entry.desc,
                                          score |-> Len(prefix),
                                          matchType |-> "partial_code"])
                      ELSE results)

\* for (const entry of icd10Database) { if (results.length >= maxResults) break; ... push }
RECURSIVE ScanEntries(_, _, _, _, _, _)
ScanEntries(db, i, prefix, normalized, maxResults, results) ==
  IF i > Len(db) \/ Len(results) >= maxResults THEN results
  ELSE LET entry == db[i]
           hit == StartsWith(entry.normalizedCode, prefix)
                    /\ entry.normalizedCode # normalized
       IN ScanEntries(db, i + 1, prefix, normalized, maxResults,
                      IF hit THEN Append(results,
                                         [code |-> entry.code,
                                          description |-> entry.desc,
                                          score |-> Len(prefix),
                                          matchType |-> "partial_code"])
                      ELSE results)

\* The prefix loop without `results.length < maxResults` in its condition.
RECURSIVE PrefixLoopNoCountCheck(_, _, _, _, _)
PrefixLoopNoCountCheck(db, normalized, prefixLen, maxResults, acc) ==
  IF prefixLen >= 3
  THEN PrefixLoopNoCountCheck(db, normalized, prefixLen - 1, maxResults,
                  [results |-> ScanEntries(db, 1, Slice0(normalized, prefixLen),
                                           normalized, maxResults, acc.results),
                   scanned |-> Append(acc.scanned,
                                      [prefixLen |-> prefixLen, before |-> Len(acc.results)])])
  ELSE acc

\* for (prefixLen = normalized.length; prefixLen >= 3 && results.length < maxResults; prefixLen--)
\* `scanned` records each prefix length whose scan ran and how many results
\* had been collected when it started.
RECURSIVE PrefixLoop(_, _, _, _, _)
PrefixLoop(db, normalized, prefixLen, maxResults, acc) ==
  IF prefixLen >= 3 /\ Len(acc.results) < maxResults
  THEN PrefixLoop(db, normalized, prefixLen - 1, maxResults,
                  [results |-> ScanEntries(db, 1, Slice0(normalized, prefixLen),
                                           normalized, maxResults, acc.results),
                   scanned |-> Append(acc.scanned,
                                      [prefixLen |-> prefixLen, before |-> Len(acc.results)])])
  ELSE acc

\* findSimilarCodes starting the prefix loop at `code.length`, the length of
\* the input as typed, instead of `normalized.length`.
findSimilarCodesRawLength(db, code, maxResults) ==
  IF db = None THEN [results |-> <<>>, scanned |-> <<>>]
  ELSE LET normalized == normalizeCode(code)
       IN PrefixLoop(db[1], normalized, Len(code), maxResults,
                     [results |-> <<>>, scanned |-> <<>>])

findSimilarCodes(db, code, maxResults) ==
  IF db = None THEN [results |-> <<>>, scanned |-> <<>>]
  ELSE LET normalized == normalizeCode(code)
       IN PrefixLoop(db[1], normalized, Len(normalized), maxResults,
                     [results |-> <<>>, scanned |-> <<>>])

\* -------------------------------------------------------- getDatabaseStats
\* getDatabaseStats with the test inverted: `loaded: icd10Database === null`
getDatabaseStatsInverted(db, kIndex) ==
  [totalCodes |-> IF db = None THEN 0 ELSE Len(db[1]),
   uniqueKeywords |-> IF kIndex = None THEN 0 ELSE Len(kIndex[1]),
   loaded |-> db = None]

getDatabaseStats(db, kIndex) ==
  [totalCodes |-> IF db = None THEN 0 ELSE Len(db[1]),
   uniqueKeywords |-> IF kIndex = None THEN 0 ELSE Len(kIndex[1]),
   loaded |-> db # None]

\* ------------------------------------------- isValidCode, getCodeDescription
\* entry !== null
isValidCode(entry) == entry # None

\* entry?.desc ?? null
getCodeDescription(entry) == IF entry = None THEN None ELSE Some(entry[1].desc)

\* -------------------------------------------------------- getICDContextForAI
ContextHeader ==
  <<"R", "E", "L", "E", "V", "A", "N", "T", " ", "I", "C", "D",
     "-", "1", "0", "-", "C", "M", " ", "C", "O", "D", "E", "S",
     " ", "F", "R", "O", "M", " ", "D", "A", "T", "A", "B", "A",
     "S", "E", " ", "(", "u", "s", "e", " ", "t", "h", "e", "s",
     "e", " ", "a", "s", " ", "p", "r", "i", "m", "a", "r", "y",
     " ", "r", "e", "f", "e", "r", "e", "n", "c", "e", ")", ":">>

\* lines.join('\n')
RECURSIVE JoinLines(_)
JoinLines(lines) ==
  IF lines = <<>> THEN <<>>
  ELSE IF Len(lines) = 1 THEN lines[1]
  ELSE lines[1] \o <<"\n">> \o JoinLines(Tail(lines))

\* getICDContextForAI with the template `${header}${lines.join('\n')}`: no
\* line break between the header and the first line.
getICDContextForAINoHeaderBreak(results) ==
  IF Len(results) = 0 THEN <<>>
  ELSE LET lines == [i \in 1..Len(results) |->
                       results[i].code \o <<":", " ">> \o results[i].description]
       IN ContextHeader \o JoinLines(lines)

\* The body of getICDContextForAI on the results of searchByDescription.
getICDContextForAI(results) ==
  IF Len(results) = 0 THEN <<>>
  ELSE LET lines == [i \in 1..Len(results) |->
                       results[i].code \o <<":", " ">> \o results[i].description]
       IN ContextHeader \o <<"\n">> \o JoinLines(lines)

\* ------------------------------------------------------------------ state
VARIABLES
  source,          \* the {code, desc} records of lib/ICD/icd10_codes.json
  icd10Database,   \* None | Some(sequence of ICD10Entry)
  keywordIndex,    \* None | Some(Map keyword -> indices)
  codeIndex,       \* None | Some(Map normalizedCode -> index)
  isLoading,
  loadPromise,     \* None | Some(id of the promise of the latest load attempt)
  promises,        \* promises[id]: how the promise of load attempt id settled
  pc,              \* per caller: "idle", "awaiting", "returned", "threw"
  req,             \* per caller: the operation in flight and its arguments
  awaited,         \* per caller: id of the load promise it awaits, 0 if loadDatabase returned at once
  result,          \* per caller: what its operation returned or threw
  iter,            \* per caller: position in the loop of batchValidateCodes, 0 outside it
  \* audit-trail-api.ts, diagnosis-coding.ts
  allRecords,      \* processDiagnosisCoding: the rows of the sheet, by diagnosis column
  coded,           \* processDiagnosisCoding: None | Some(results with their columns)
  diagnoses,       \* batchDiagnosisToCode: the DiagnosisInput list
  chunkSize,       \* aiSettings.chunkSize
  bpc,             \* batchDiagnosisToCode: "idle", "loop", "retry", "done"
  loopI,           \* the loop variable i
  missingItems,    \* items of the current chunk still to retry
  allResults,
  chunkCalls,      \* processChunk calls made for chunks
  retryCalls,      \* processChunk calls made for single missing items
  \* referenceDocs.ts
  directory,       \* the files of REFERENCE_DIR
  cachedChunks,    \* None | Some(chunks)
  cacheTimestamp,
  clock,           \* Date.now()
  loadCall,        \* per caller: the searchReferenceDocs / loadAllDocs call in flight
  invalidated      \* invalidateRefDocsCache has returned and no search was called since

icdVars == <<source, icd10Database, keywordIndex, codeIndex, isLoading, loadPromise,
             promises, pc, req, awaited, result, iter>>

codingVars == <<allRecords, coded, diagnoses, chunkSize, bpc, loopI, missingItems,
                allResults, chunkCalls, retryCalls>>

docVars == <<directory, cachedChunks, cacheTimestamp, clock, loadCall, invalidated>>

vars == <<icdVars, codingVars, docVars>>

Callers == 1..NumCallers

\* No coding run has been started.
CodingIdle ==
  /\ allRecords = <<>>
  /\ coded = None
  /\ diagnoses = <<>>
  /\ chunkSize = 10
  /\ bpc = "idle"
  /\ loopI = 0
  /\ missingItems = <<>>
  /\ allResults = <<>>
  /\ chunkCalls = 0
  /\ retryCalls = 0

\* CACHE_TTL = 5 * 60 * 1000 milliseconds
CACHE_TTL == 300000

NoLoadCall == [pc |-> "idle", now |-> 0, files |-> <<>>, pos |-> 0, buffer |-> "",
               allChunks |-> <<>>, ret |-> <<>>, path |-> "none"]

\* The reference documents have not been touched.
DocsIdle ==
  /\ directory = None
  /\ cachedChunks = None
  /\ cacheTimestamp = 0
  /\ clock = CACHE_TTL
  /\ loadCall = [c \in Callers |-> NoLoadCall]
  /\ invalidated = FALSE

NoArg == <<>>
NoReq == [op |-> "none", arg |-> NoArg, max |-> 0]
NoResult == [ret |-> None, scanned |-> <<>>, error |-> "none"]

LookupArgs == CodePool \cup {e.code : e \in EntryPool}

\* arguments of the operations that wrap lookupCode and searchByDescription:
\* one that matches and one that does not
WrapperCodes == { <<"J","1","8",".","9">>, <<"1","2","3">> }
WrapperQueries == { <<"c","a","r">>, <<>> }

Requests ==
  {[op |-> "ensureLoaded", arg |-> NoArg, max |-> 0],
   [op |-> "getDatabaseStats", arg |-> NoArg, max |-> 0]}
  \cup {[op |-> "lookupCode", arg |-> a, max |-> 0] : a \in LookupArgs}
  \cup {[op |-> "searchByDescription", arg |-> q, max |-> k] : q \in QueryPool, k \in 0..MaxResults}
  \cup {[op |-> "findSimilarCodes", arg |-> a, max |-> k] : a \in CodePool, k \in 0..MaxResults}
  \cup {[op |-> "isValidCode", arg |-> a, max |-> 0] : a \in WrapperCodes}
  \cup {[op |-> "getCodeDescription", arg |-> a, max |-> 0] : a \in WrapperCodes}
  \cup {[op |-> "getICDContextForAI", arg |-> q, max |-> MaxResults] : q \in WrapperQueries}
  \cup {[op |-> "batchValidateCodes", arg |-> b, max |-> 0] : b \in BatchPool}

\* The requests and catalogs of the overlapping-callers specification.
LoadRequests ==
  {[op |-> "ensureLoaded", arg |-> NoArg, max |-> 0],
   [op |-> "lookupCode", arg |-> <<"J","1","8",".","9">>, max |-> 0]}

LoadCatalogs == {c \in Catalogs : Len(c) = 1 /\ c[1].code = <<"J","1","8",".","9">>}

Attempts == Len(promises)

\* The module variables of icd10-lookup.ts after import, no call in flight.
IcdFresh(catalogs) ==
  /\ source \in catalogs
  /\ icd10Database = None
  /\ keywordIndex = None
  /\ codeIndex = None
  /\ isLoading = FALSE
  /\ loadPromise = None
  /\ promises = <<>>
  /\ pc = [c \in Callers |-> "idle"]
  /\ req = [c \in Callers |-> NoReq]
  /\ awaited = [c \in Callers |-> 0]
  /\ result = [c \in Callers |-> NoResult]
  /\ iter = [c \in Callers |-> 0]

InitWith(catalogs) == IcdFresh(catalogs) /\ CodingIdle /\ DocsIdle

Init == InitWith(Catalogs)
InitLoad == InitWith(LoadCatalogs)

\* Invoke without `if (icd10Database !== null) return;`: every call that
\* finds no load in flight runs the executor again.
InvokeReloads(c, r, outcome) ==
  /\ pc[c] = "idle"
  /\ pc' = [pc EXCEPT ![c] = "awaiting"]
  /\ req' = [req EXCEPT ![c] = r]
  /\ UNCHANGED <<codingVars, docVars, source, result, iter>>
  /\ IF isLoading /\ loadPromise # None
     THEN /\ awaited' = [awaited EXCEPT ![c] = loadPromise[1]]
          /\ UNCHANGED <<icd10Database, keywordIndex, codeIndex, isLoading,
                         loadPromise, promises>>
     ELSE /\ Len(promises) < MaxAttempts
          /\ LET after == Executor(outcome, source,
                                   [icd10Database |-> icd10Database,
                                    codeIndex |-> codeIndex,
                                    keywordIndex |-> keywordIndex])
             IN /\ icd10Database' = after.icd10Database
                /\ codeIndex' = after.codeIndex
                /\ keywordIndex' = after.keywordIndex
                /\ promises' = Append(promises,
                                      [state |-> after.settled,
                                       error |-> IF after.settled = "rejected"
                                                 THEN outcome ELSE "none"])
          /\ isLoading' = FALSE
          /\ loadPromise' = Some(Len(promises) + 1)
          /\ awaited' = [awaited EXCEPT ![c] = Len(promises) + 1]

\* A caller calls an exported operation: the synchronous part of
\* `await loadDatabase()`, up to the first suspension.  `outcome` is how the
\* source behaves if this call runs the executor.
Invoke(c, r, outcome) ==
  /\ pc[c] = "idle"
  /\ pc' = [pc EXCEPT ![c] = "awaiting"]
  /\ req' = [req EXCEPT ![c] = r]
  /\ UNCHANGED <<codingVars, docVars, source, result, iter>>
  /\ IF icd10Database # None
     THEN \* if (icd10Database !== null) return;
          /\ awaited' = [awaited EXCEPT ![c] = 0]
          /\ UNCHANGED <<icd10Database, keywordIndex, codeIndex, isLoading,
                         loadPromise, promises>>
     ELSE IF isLoading /\ loadPromise # None
     THEN \* await loadPromise; return;
          /\ awaited' = [awaited EXCEPT ![c] = loadPromise[1]]
          /\ UNCHANGED <<icd10Database, keywordIndex, codeIndex, isLoading,
                         loadPromise, promises>>
     ELSE \* isLoading = true; loadPromise = new Promise(executor); await loadPromise
          /\ Attempts < MaxAttempts
          /\ LET after == Executor(outcome, source,
                                   [icd10Database |-> icd10Database,
                                    codeIndex |-> codeIndex,
                                    keywordIndex |-> keywordIndex])
             IN /\ icd10Database' = after.icd10Database
                /\ codeIndex' = after.codeIndex
                /\ keywordIndex' = after.keywordIndex
                /\ promises' = Append(promises,
                                      [state |-> after.settled,
                                       error |-> IF after.settled = "rejected"
                                                 THEN outcome ELSE "none"])
          /\ isLoading' = FALSE   \* set in `finally`, inside the executor
          /\ loadPromise' = Some(Attempts + 1)
          /\ awaited' = [awaited EXCEPT ![c] = Attempts + 1]

\* What the body of operation r returns once `await loadDatabase()` has resumed.
Body(r) ==
  CASE r.op = "ensureLoaded" ->
         [ret |-> None, scanned |-> <<>>, error |-> "none"]
    [] r.op = "lookupCode" ->
         [ret |-> lookupCode(icd10Database, codeIndex, r.arg),
          scanned |-> <<>>, error |-> "none"]
    [] r.op = "searchByDescription" ->
         [ret |-> searchByDescription(icd10Database, keywordIndex, r.arg, r.max),
          scanned |-> <<>>, error |-> "none"]
    [] r.op = "findSimilarCodes" ->
         LET out == findSimilarCodes(icd10Database, r.arg, r.max)
         IN [ret |-> out.results, scanned |-> out.scanned, error |-> "none"]
    [] r.op = "getDatabaseStats" ->
         [ret |-> getDatabaseStats(icd10Database, keywordIndex),
          scanned |-> <<>>, error |-> "none"]
    [] r.op = "isValidCode" ->
         [ret |-> isValidCode(lookupCode(icd10Database, codeIndex, r.arg)),
          scanned |-> <<>>, error |-> "none"]
    [] r.op = "getCodeDescription" ->
         [ret |-> getCodeDescription(lookupCode(icd10Database, codeIndex, r.arg)),
          scanned |-> <<>>, error |-> "none"]
    [] r.op = "getICDContextForAI" ->
         [ret |-> getICDContextForAI(
                    searchByDescription(icd10Database, keywordIndex, r.arg, r.max)),
          scanned |-> <<>>, error |-> "none"]

\* Resume with the rejection caught inside the operation (try/catch around
\* `await loadDatabase()`): the body runs on whatever the variables hold.
ResumeSwallowsError(c) ==
  /\ pc[c] = "awaiting"
  /\ req[c].op # "batchValidateCodes"
  /\ pc' = [pc EXCEPT ![c] = "returned"]
  /\ result' = [result EXCEPT ![c] = Body(req[c])]
  /\ UNCHANGED <<codingVars, docVars, source, icd10Database, keywordIndex, codeIndex, isLoading,
                 loadPromise, promises, req, awaited, iter>>

\* Resume with lookupCode caching a miss: `codeIndex.set(normalized, 0)` when
\* the normalized code is not a key, so that the next lookup is a hit.
ResumeMemoisesMiss(c) ==
  /\ pc[c] = "awaiting"
  /\ req[c].op # "batchValidateCodes"
  /\ pc' = [pc EXCEPT ![c] = "returned"]
  /\ result' = [result EXCEPT ![c] = Body(req[c])]
  /\ codeIndex' =
       IF /\ req[c].op = "lookupCode" /\ codeIndex # None
          /\ ~MapHas(codeIndex[1], normalizeCode(req[c].arg))
       THEN Some(MapSet(codeIndex[1], normalizeCode(req[c].arg), 1))
       ELSE codeIndex
  /\ UNCHANGED <<codingVars, docVars, source, icd10Database, keywordIndex, isLoading,
                 loadPromise, promises, req, awaited, iter>>

\* Resume with batchValidateCodes keying its map by the normalized code:
\* `results.set(normalizeCode(code), entry)`.
ResumeBatchNormalizedKeys(c) ==
  /\ pc[c] = "awaiting"
  /\ IF awaited[c] # 0 /\ promises[awaited[c]].state = "rejected"
     THEN /\ pc' = [pc EXCEPT ![c] = "threw"]
          /\ result' = [result EXCEPT ![c] =
                          [ret |-> None, scanned |-> <<>>,
                           error |-> promises[awaited[c]].error]]
          /\ UNCHANGED <<awaited, iter>>
     ELSE IF req[c].op = "batchValidateCodes"
     THEN LET codes == req[c].arg
              k == iter[c]
              results == IF k = 0 THEN <<>>
                         ELSE MapSet(result[c].ret, normalizeCode(codes[k]),
                                     lookupCode(icd10Database, codeIndex, codes[k]))
          IN /\ result' = [result EXCEPT ![c] =
                             [ret |-> results, scanned |-> <<>>, error |-> "none"]]
             /\ IF k < Len(codes)
                THEN /\ icd10Database # None
                     /\ iter' = [iter EXCEPT ![c] = k + 1]
                     /\ awaited' = [awaited EXCEPT ![c] = 0]
                     /\ UNCHANGED pc
                ELSE /\ pc' = [pc EXCEPT ![c] = "returned"]
                     /\ iter' = [iter EXCEPT ![c] = 0]
                     /\ UNCHANGED awaited
     ELSE /\ pc' = [pc EXCEPT ![c] = "returned"]
          /\ result' = [result EXCEPT ![c] = Body(req[c])]
          /\ UNCHANGED <<awaited, iter>>
  /\ UNCHANGED <<codingVars, docVars, source, icd10Database, keywordIndex, codeIndex, isLoading,
                 loadPromise, promises, req>>

\* The caller resumes after an await.  A rejected load promise throws out of
\* the operation.  batchValidateCodes creates its Map after the first await
\* and then, per code, calls `await lookupCode(code)` (whose loadDatabase
\* returns at once, the database being set) and stores the entry under the
\* code as supplied; iter is the code whose lookup is awaited.  Every other
\* operation runs its body to the return.
Resume(c) ==
  /\ pc[c] = "awaiting"
  /\ IF awaited[c] # 0 /\ promises[awaited[c]].state = "rejected"
     THEN /\ pc' = [pc EXCEPT ![c] = "threw"]
          /\ result' = [result EXCEPT ![c] =
                          [ret |-> None, scanned |-> <<>>,
                           error |-> promises[awaited[c]].error]]
          /\ UNCHANGED <<awaited, iter>>
     ELSE IF req[c].op = "batchValidateCodes"
     THEN LET codes == req[c].arg
              k == iter[c]
              results == IF k = 0 THEN <<>>
                         ELSE MapSet(result[c].ret, codes[k],
                                     lookupCode(icd10Database, codeIndex, codes[k]))
          IN /\ result' = [result EXCEPT ![c] =
                             [ret |-> results, scanned |-> <<>>, error |-> "none"]]
             /\ IF k < Len(codes)
                THEN /\ icd10Database # None
                     /\ iter' = [iter EXCEPT ![c] = k + 1]
                     /\ awaited' = [awaited EXCEPT ![c] = 0]
                     /\ UNCHANGED pc
                ELSE /\ pc' = [pc EXCEPT ![c] = "returned"]
                     /\ iter' = [iter EXCEPT ![c] = 0]
                     /\ UNCHANGED awaited
     ELSE /\ pc' = [pc EXCEPT ![c] = "returned"]
          /\ result' = [result EXCEPT ![c] = Body(req[c])]
          /\ UNCHANGED <<awaited, iter>>
  /\ UNCHANGED <<codingVars, docVars, source, icd10Database, keywordIndex, codeIndex, isLoading,
                 loadPromise, promises, req>>

\* The caller has consumed the outcome and may call again.
Return(c) ==
  /\ pc[c] \in {"returned", "threw"}
  /\ pc' = [pc EXCEPT ![c] = "idle"]
  /\ req' = [req EXCEPT ![c] = NoReq]
  /\ awaited' = [awaited EXCEPT ![c] = 0]
  /\ result' = [result EXCEPT ![c] = NoResult]
  /\ UNCHANGED <<codingVars, docVars, source, icd10Database, keywordIndex, codeIndex, isLoading,
                 loadPromise, promises, iter>>

\* One caller issuing every request against every catalog, the source file
\* being readable and well-formed.
Next ==
  \/ \E r \in Requests : Invoke(1, r, "ok")
  \/ Resume(1)
  \/ Return(1)

Spec == Init /\ [][Next]_vars

\* Several callers whose operations overlap, on a source that may fail.
NextLoad ==
  \/ \E c \in Callers, r \in LoadRequests, o \in ReadOutcomes : Invoke(c, r, o)
  \/ \E c \in Callers : Resume(c)
  \/ \E c \in Callers : Return(c)

SpecLoad == InitLoad /\ [][NextLoad]_vars

\* One caller issuing every kind of query with arguments that find nothing
\* (and some that find something), on a source that may fail.
FailRequests ==
  {[op |-> "getDatabaseStats", arg |-> NoArg, max |-> 0],
   [op |-> "lookupCode", arg |-> <<"1","2","3">>, max |-> 0],
   [op |-> "lookupCode", arg |-> <<"J","1","8",".","9">>, max |-> 0],
   [op |-> "isValidCode", arg |-> <<"1","2","3">>, max |-> 0],
   [op |-> "searchByDescription", arg |-> <<"!","!","!">>, max |-> 1],
   [op |-> "searchByDescription", arg |-> <<"c","a","r">>, max |-> 1],
   [op |-> "findSimilarCodes", arg |-> <<"J","1">>, max |-> 1],
   [op |-> "getICDContextForAI", arg |-> <<>>, max |-> 1],
   [op |-> "batchValidateCodes", arg |-> <<>>, max |-> 0],
   [op |-> "batchValidateCodes",
    arg |-> << <<"J","1","8",".","9">>, <<"Z","Z","Z","Z","Z">> >>, max |-> 0]}

FailCatalogs == {c \in Catalogs : Len(c) <= 1}

InitFail == InitWith(FailCatalogs)

NextFail ==
  \/ \E r \in FailRequests, o \in ReadOutcomes : Invoke(1, r, o)
  \/ Resume(1)
  \/ Return(1)

SpecFail == InitFail /\ [][NextFail]_vars

\* One caller issuing the operations that wrap a lookup or a search, on a
\* readable source: batches, prompt contexts for every query and size, stats.
WrapRequests ==
  {[op |-> "getDatabaseStats", arg |-> NoArg, max |-> 0]}
  \cup {[op |-> "batchValidateCodes", arg |-> b, max |-> 0] : b \in BatchPool}
  \cup {[op |-> "getICDContextForAI", arg |-> q, max |-> k] : q \in QueryPool, k \in 0..MaxResults}

NextWrap ==
  \/ \E r \in WrapRequests : Invoke(1, r, "ok")
  \/ Resume(1)
  \/ Return(1)

SpecWrap == Init /\ [][NextWrap]_vars

\* One caller searching a catalog of two full-length records, in either
\* order or alone, with the default and smaller result limits.
Pneumonia ==
  [code |-> <<"J","1","8",".","9">>,
   desc |-> <<"P","n","e","u","m","o","n","i","a",","," ","u","n","s","p",
              "e","c","i","f","i","e","d"," ","o","r","g","a","n","i","s",
              "m">>]
Copd ==
  [code |-> <<"J","4","4",".","0">>,
   desc |-> <<"C","h","r","o","n","i","c"," ","o","b","s","t","r","u","c",
              "t","i","v","e"," ","p","u","l","m","o","n","a","r","y"," ","d",
              "i","s","e","a","s","e"," ","w","i","t","h"," ","a","c","u","t",
              "e"," ","l","o","w","e","r"," ","r","e","s","p","i","r","a","t",
              "o","r","y"," ","i","n","f","e","c","t","i","o","n">>]

ScenarioCatalogs ==
  {<<>>, <<Pneumonia>>, <<Copd>>, <<Pneumonia, Copd>>, <<Copd, Pneumonia>>}

ScenarioQueries ==
  { <<"p","n","e","u","m","o","n","i","a">>,
    <<"P","n","e","u","m","o"," ","a","c","u","t","e">>,
    <<"i","n","f","e","c","t","i","o","n">>,
    <<"w","i","t","h">> }

ScenarioCodes ==
  { <<"J","1","8",".","0">>, <<"J","1","8",".","9">>, <<"j","4","4">>, <<"J","4">> }

ScenarioRequests ==
  {[op |-> "searchByDescription", arg |-> q, max |-> k] : q \in ScenarioQueries, k \in {0, 1, 5}}
  \cup {[op |-> "findSimilarCodes", arg |-> a, max |-> k] : a \in ScenarioCodes, k \in {0, 1, 5}}
  \cup {[op |-> "lookupCode", arg |-> a, max |-> 0] : a \in ScenarioCodes}

InitScenario == InitWith(ScenarioCatalogs)

NextScenario ==
  \/ \E r \in ScenarioRequests : Invoke(1, r, "ok")
  \/ Resume(1)
  \/ Return(1)

SpecScenario == InitScenario /\ [][NextScenario]_vars

\* ============================================================ audit-trail-api.ts
\* Confidences are hundredths (0.75 is 75).  A BatchCodeResult keeps the
\* fields the validation and the batch loop read or write; `notes` is the
\* kind of note, not its wording.
BatchCodeResult(row, diagnosis, code, confidence, notes) ==
  [row |-> row, column |-> "", input_diagnosis |-> diagnosis, icd_code |-> code,
   official_description |-> <<>>, confidence |-> confidence, notes |-> notes]

\* !result.icd_code || result.icd_code.trim() === ''
IsBlank(code) == \A k \in 1..Len(code) : IsSpace(code[k])

\* The validation without the cap of the branch that keeps the unknown code.
postValidateNoCap(r, db, cIndex, kIndex) ==
  IF IsBlank(r.icd_code) THEN r
  ELSE LET dbEntry == lookupCode(db, cIndex, r.icd_code)
       IN IF dbEntry # None
          THEN [r EXCEPT !.official_description = dbEntry[1].desc,
                         !.notes = "verified"]
          ELSE LET suggestions == searchByDescription(db, kIndex, r.input_diagnosis, 3)
               IN IF Len(suggestions) > 0
                  THEN [r EXCEPT !.icd_code = suggestions[1].code,
                                 !.official_description = suggestions[1].description,
                                 !.confidence = Min(r.confidence, 75),
                                 !.notes = "corrected"]
                  ELSE [r EXCEPT !.notes = "not_found"]

\* parsed.map(async (result) => ...): one result of the LLM checked against
\* the catalog.
postValidate(r, db, cIndex, kIndex) ==
  IF IsBlank(r.icd_code) THEN r
  ELSE LET dbEntry == lookupCode(db, cIndex, r.icd_code)
       IN IF dbEntry # None
          THEN [r EXCEPT !.official_description = dbEntry[1].desc,
                         !.notes = "verified"]
          ELSE LET suggestions == searchByDescription(db, kIndex, r.input_diagnosis, 3)
               IN IF Len(suggestions) > 0
                  THEN [r EXCEPT !.icd_code = suggestions[1].code,
                                 !.official_description = suggestions[1].description,
                                 !.confidence = Min(r.confidence, 75),
                                 !.notes = "corrected"]
                  ELSE [r EXCEPT !.notes = "not_found",
                                 !.confidence = Min(r.confidence, 50)]

\* What the model answers for a chunk, as the array JSON.parse yields: one
\* result per item, the items restated, none, all but the last, results
\* under other row numbers, or one result too many.
LlmResults(chunk, response) ==
  LET echo == [k \in 1..Len(chunk) |->
                 BatchCodeResult(chunk[k].row, chunk[k].diagnosis,
                                 response.code, response.conf, "llm")]
  IN CASE response.kind = "echo" -> echo
       [] response.kind = "restated" ->
            [k \in 1..Len(chunk) |-> [echo[k] EXCEPT !.input_diagnosis = response.diag]]
       [] response.kind = "empty" -> <<>>
       [] response.kind = "drop_last" ->
            IF Len(echo) = 0 THEN <<>> ELSE SubSeq(echo, 1, Len(echo) - 1)
       [] response.kind = "wrong_rows" ->
            [k \in 1..Len(chunk) |-> [echo[k] EXCEPT !.row = chunk[k].row + 1]]
       [] response.kind = "extra" ->
            Append(echo, BatchCodeResult(9, response.diag, response.code,
                                         response.conf, "llm"))

\* chunk.map(d => ({..., notes: "AI response could not be parsed ..."}))
ParseErrorEntries(chunk) ==
  [k \in 1..Len(chunk) |->
     BatchCodeResult(chunk[k].row, chunk[k].diagnosis, <<>>, 0, "parse_error")]

\* processChunk on a readable catalog: the answer parsed and validated, or
\* the entries of the catch block when it does not parse.
processChunk(chunk, response, db, cIndex, kIndex) ==
  IF response.kind = "unparseable" THEN ParseErrorEntries(chunk)
  ELSE LET parsed == LlmResults(chunk, response)
       IN [k \in 1..Len(parsed) |-> postValidate(parsed[k], db, cIndex, kIndex)]

\* Whether processChunk reaches loadDatabase: through getICDContextForAI for
\* each item of the chunk, or through lookupCode for a result with a code.
ChunkLoads(chunk, response) ==
  \/ Len(chunk) > 0
  \/ /\ response.kind # "unparseable"
     /\ \E k \in 1..Len(LlmResults(chunk, response)) :
          ~IsBlank(LlmResults(chunk, response)[k].icd_code)

\* The catalog processChunk works on: the loaded one, or the one its first
\* loadDatabase call builds from the readable source.
CatalogForChunk(loads) ==
  IF icd10Database # None \/ ~loads
  THEN [icd10Database |-> icd10Database, codeIndex |-> codeIndex,
        keywordIndex |-> keywordIndex, settled |-> "none"]
  ELSE Executor("ok", source, [icd10Database |-> icd10Database,
                               codeIndex |-> codeIndex,
                               keywordIndex |-> keywordIndex])

SetCatalog(cat) ==
  /\ icd10Database' = cat.icd10Database
  /\ codeIndex' = cat.codeIndex
  /\ keywordIndex' = cat.keywordIndex
  /\ IF cat.settled = "none"
     THEN UNCHANGED <<promises, loadPromise>>
     ELSE /\ promises' = Append(promises, [state |-> cat.settled, error |-> "none"])
          /\ loadPromise' = Some(Attempts + 1)
  /\ UNCHANGED <<source, isLoading, pc, req, awaited, result, iter>>

\* diagnoses.slice(i, i + CHUNK_SIZE) for 0 <= i and 0 <= CHUNK_SIZE
SliceChunk(list, from, size) ==
  SubSeq(list, from + 1, Min(from + size, Len(list)))

\* allResults.sort((a, b) => a.row - b.row): stable
RECURSIVE InsertByRow(_, _)
InsertByRow(sorted, e) ==
  IF sorted = <<>> THEN <<e>>
  ELSE IF sorted[Len(sorted)].row <= e.row THEN Append(sorted, e)
  ELSE Append(InsertByRow(SubSeq(sorted, 1, Len(sorted) - 1), e), sorted[Len(sorted)])

RECURSIVE SortByRowFrom(_, _, _)
SortByRowFrom(list, k, acc) ==
  IF k > Len(list) THEN acc ELSE SortByRowFrom(list, k + 1, InsertByRow(acc, list[k]))

SortByRow(list) == SortByRowFrom(list, 1, <<>>)

\* One pass of the chunk loop up to the retries: processChunk on the chunk,
\* the rows it did not return set aside.
ChunkCall(response) ==
  /\ bpc = "loop"
  /\ loopI < Len(diagnoses)
  /\ chunkCalls + retryCalls < MaxLlmCalls
  /\ LET chunk == SliceChunk(diagnoses, loopI, chunkSize)
         cat == CatalogForChunk(ChunkLoads(chunk, response))
         chunkResults == processChunk(chunk, response, cat.icd10Database,
                                      cat.codeIndex, cat.keywordIndex)
         returnedRows == {chunkResults[k].row : k \in 1..Len(chunkResults)}
         Missing(d) == d.row \notin returnedRows
         missing == SelectSeq(chunk, Missing)
     IN /\ allResults' = allResults \o chunkResults
        /\ chunkCalls' = chunkCalls + 1
        /\ missingItems' = missing
        /\ IF missing = <<>>
           THEN loopI' = loopI + chunkSize /\ UNCHANGED bpc
           ELSE bpc' = "retry" /\ UNCHANGED loopI
        /\ SetCatalog(cat)
  /\ UNCHANGED <<allRecords, coded, diagnoses, chunkSize, retryCalls, docVars>>

\* One retry: processChunk on the first missing item alone; an empty answer
\* leaves the fallback entry.
RetryCall(response) ==
  /\ bpc = "retry"
  /\ chunkCalls + retryCalls < MaxLlmCalls
  /\ LET missing == Head(missingItems)
         cat == CatalogForChunk(ChunkLoads(<<missing>>, response))
         singleResult == processChunk(<<missing>>, response, cat.icd10Database,
                                      cat.codeIndex, cat.keywordIndex)
     IN /\ allResults' =
             IF Len(singleResult) > 0 THEN allResults \o singleResult
             ELSE Append(allResults,
                         BatchCodeResult(missing.row, missing.diagnosis, <<>>, 0,
                                         "retry_failed"))
        /\ retryCalls' = retryCalls + 1
        /\ missingItems' = Tail(missingItems)
        /\ IF Tail(missingItems) = <<>>
           THEN loopI' = loopI + chunkSize /\ bpc' = "loop"
           ELSE UNCHANGED <<loopI, bpc>>
        /\ SetCatalog(cat)
  /\ UNCHANGED <<allRecords, coded, diagnoses, chunkSize, chunkCalls, docVars>>

\* The loop has run past the list: sort by row and return.
FinishBatch ==
  /\ bpc = "loop"
  /\ loopI >= Len(diagnoses)
  /\ allResults' = SortByRow(allResults)
  /\ bpc' = "done"
  /\ UNCHANGED <<allRecords, coded, diagnoses, chunkSize, loopI, missingItems,
                 chunkCalls, retryCalls, icdVars, docVars>>

\* batchDiagnosisToCode called with a list and a chunk size.
BatchCalled(lists, sizes) ==
  /\ allRecords = <<>>
  /\ coded = None
  /\ diagnoses \in lists
  /\ chunkSize \in sizes
  /\ bpc = "loop"
  /\ loopI = 0
  /\ missingItems = <<>>
  /\ allResults = <<>>
  /\ chunkCalls = 0
  /\ retryCalls = 0

\* One diagnosis coded against small catalogs, the model answering with
\* every code, confidence and restatement of the pools.
LlmCodes ==
  { <<>>, <<" ">>, <<"J","1","8",".","9">>, <<"j","1","8","-","9">>, <<"Z","Z","Z">> }
LlmConfidences == {40, 60, 90}

ValidationResponses ==
  {[kind |-> "echo", code |-> a, conf |-> f, diag |-> <<>>] :
     a \in LlmCodes, f \in LlmConfidences}
  \cup {[kind |-> "restated", code |-> a, conf |-> f, diag |-> <<"z","z","z">>] :
          a \in LlmCodes, f \in LlmConfidences}
  \cup {[kind |-> k, code |-> <<>>, conf |-> 0, diag |-> <<>>] :
          k \in {"empty", "unparseable"}}

InitValidation ==
  /\ IcdFresh(FailCatalogs)
  /\ BatchCalled({ << [row |-> 1, diagnosis |-> <<"c","a","r">>] >> }, {10})
  /\ DocsIdle

NextValidation ==
  \/ \E response \in ValidationResponses : ChunkCall(response)
  \/ \E response \in ValidationResponses : RetryCall(response)
  \/ FinishBatch

SpecValidation == InitValidation /\ [][NextValidation]_vars

\* Lists of one or two items, two of them of one row as two diagnosis
\* columns give, under chunk sizes 0, 1 and 2, the model answering in every
\* way about a fixed code.
BatchLists ==
  { << [row |-> 1, diagnosis |-> <<"c","a","r">>] >>,
    << [row |-> 1, diagnosis |-> <<"c","a","r">>],
       [row |-> 2, diagnosis |-> <<"z","z","z">>] >>,
    << [row |-> 1, diagnosis |-> <<"c","a","r">>],
       [row |-> 1, diagnosis |-> <<"z","z","z">>] >> }

ChunkSizes == {0, 1, 2}

BatchResponses ==
  {[kind |-> k, code |-> <<"J","1","8",".","9">>, conf |-> 90, diag |-> <<"c","a","r">>] :
     k \in {"echo", "empty", "drop_last", "wrong_rows", "extra", "unparseable"}}

InitBatch ==
  /\ IcdFresh(FailCatalogs)
  /\ BatchCalled(BatchLists, ChunkSizes)
  /\ DocsIdle

NextBatch ==
  \/ \E response \in BatchResponses : ChunkCall(response)
  \/ \E response \in BatchResponses : RetryCall(response)
  \/ FinishBatch

SpecBatch == InitBatch /\ [][NextBatch]_vars

\* ============================================================ diagnosis-coding.ts
\* DEFAULT_AI_SETTINGS.confidenceThreshold, in hundredths
ConfidenceThreshold == 70

\* findDiagnosisColumns(headers) for a sheet whose headers are PDX and SDX
dxColumns == <<"PDX", "SDX">>

\* String(value || "").trim()
RECURSIVE TrimStart(_)
TrimStart(text) ==
  IF text # <<>> /\ IsSpace(Head(text)) THEN TrimStart(Tail(text)) ELSE text

RECURSIVE TrimEnd(_)
TrimEnd(text) ==
  IF text # <<>> /\ IsSpace(text[Len(text)])
  THEN TrimEnd(SubSeq(text, 1, Len(text) - 1)) ELSE text

TrimText(text) == TrimEnd(TrimStart(text))

\* The entries one column contributes from record idx on, in record order.
RECURSIVE ColumnEntries(_, _, _)
ColumnEntries(records, col, idx) ==
  IF idx > Len(records) THEN <<>>
  ELSE LET val == TrimText(records[idx][col])
       IN (IF Len(val) > 0
           THEN << [row |-> idx, column |-> col, diagnosis |-> val] >>
           ELSE <<>>) \o ColumnEntries(records, col, idx + 1)

\* for (const col of dxColumns) for (idx ...) diagnoses.push(...)
RECURSIVE BuildDiagnoses(_, _)
BuildDiagnoses(records, k) ==
  IF k > Len(dxColumns) THEN <<>>
  ELSE ColumnEntries(records, dxColumns[k], 1) \o BuildDiagnoses(records, k + 1)

\* results.map((r, i) => ({...r, column: diagnoses[i]?.column || "unknown",
\*                         notes: needsReview ? ... : r.notes}))
AttachColumns(results, entries) ==
  [i \in 1..Len(results) |->
     LET r == results[i]
     IN [r EXCEPT
           !.column = IF i <= Len(entries) THEN entries[i].column ELSE "unknown",
           !.notes = IF r.confidence < ConfidenceThreshold
                     THEN <<r.notes, "below_threshold">> ELSE <<r.notes>>]]

\* processDiagnosisCoding up to its call of batchDiagnosisToCode; without
\* records or without a non-empty diagnosis cell it returns at once.  The
\* batch is handed the entries without their column, which it never reads.
StartCoding ==
  /\ bpc = "idle"
  /\ coded = None
  /\ LET entries == IF Len(allRecords) = 0 THEN <<>> ELSE BuildDiagnoses(allRecords, 1)
     IN /\ diagnoses' = entries
        /\ IF Len(entries) = 0
           THEN /\ coded' = Some([success |-> FALSE, results |-> <<>>])
                /\ bpc' = "failed"
           ELSE /\ bpc' = "loop"
                /\ UNCHANGED coded
  /\ UNCHANGED <<allRecords, chunkSize, loopI, missingItems, allResults,
                 chunkCalls, retryCalls, icdVars, docVars>>

\* processDiagnosisCoding after the batch has returned.
FinishCoding ==
  /\ bpc = "done"
  /\ coded = None
  /\ coded' = Some([success |-> TRUE, results |-> AttachColumns(allResults, diagnoses)])
  /\ UNCHANGED <<allRecords, diagnoses, chunkSize, bpc, loopI, missingItems,
                 allResults, chunkCalls, retryCalls, icdVars, docVars>>

\* Sheets of up to two records with a PDX and an SDX cell each.
CellTexts == { <<>>, <<" ">>, <<"c","a","r">>, <<"z","z","z"," ">> }

SheetRecords == [{"PDX", "SDX"} -> CellTexts]

Sheets == { <<>> } \cup {<<a>> : a \in SheetRecords}
          \cup {<<a, b>> : a \in SheetRecords, b \in SheetRecords}

CodingResponses ==
  {[kind |-> k, code |-> <<"J","1","8",".","9">>, conf |-> f, diag |-> <<>>] :
     k \in {"echo", "drop_last", "unparseable"}, f \in {60, 90}}

InitCoding ==
  /\ IcdFresh({ << >> })
  /\ allRecords \in Sheets
  /\ coded = None
  /\ diagnoses = <<>>
  /\ chunkSize = 10
  /\ bpc = "idle"
  /\ loopI = 0
  /\ missingItems = <<>>
  /\ allResults = <<>>
  /\ chunkCalls = 0
  /\ retryCalls = 0
  /\ DocsIdle

NextCoding ==
  \/ StartCoding
  \/ \E response \in CodingResponses : ChunkCall(response)
  \/ \E response \in CodingResponses : RetryCall(response)
  \/ FinishBatch
  \/ FinishCoding

SpecCoding == InitCoding /\ [][NextCoding]_vars

\* ============================================================ referenceDocs.ts
\* chunkText for a text of fewer than CHUNK_SIZE characters: one chunk, none
\* for the empty text.
chunkText(text, file) ==
  IF text = "" THEN <<>> ELSE << [text |-> text, source |-> file, chunkIndex |-> 0] >>

\* The loop of loadAllDocs over `files` from position k, reading the
\* directory as it is now, up to the first PDF (whose bytes are read before
\* the parser is awaited) or to the end of the list.
RECURSIVE ReadFiles(_, _, _, _)
ReadFiles(dir, files, k, acc) ==
  IF k > Len(files)
  THEN [pc |-> "returned", pos |-> 0, buffer |-> "", allChunks |-> acc]
  ELSE IF dir[k].ext = "pdf"
  THEN [pc |-> "parsing", pos |-> k, buffer |-> dir[k].text, allChunks |-> acc]
  ELSE IF dir[k].ext \in {"txt", "md", "csv"}
  THEN ReadFiles(dir, files, k + 1, acc \o chunkText(dir[k].text, files[k]))
  ELSE ReadFiles(dir, files, k + 1, acc)

\* The end of loadAllDocs when the loop has run out, nothing while a parser
\* is awaited.
CacheWrite(run, now) ==
  IF run.pc = "returned"
  THEN /\ cachedChunks' = Some(run.allChunks)
       /\ cacheTimestamp' = now
  ELSE UNCHANGED <<cachedChunks, cacheTimestamp>>

\* searchReferenceDocs calling loadAllDocs, up to its first await or its
\* return: the fresh cache, the directory created, or the files read.  A
\* call that has returned keeps what it returned and the way it took; its
\* locals are gone.
StartLoadAllDocs(c) ==
  /\ loadCall[c].pc \in {"idle", "returned"}
  /\ invalidated' = FALSE
  /\ LET now == clock
     IN IF cachedChunks # None /\ now - cacheTimestamp < CACHE_TTL
        THEN /\ loadCall' = [loadCall EXCEPT ![c] =
                  [NoLoadCall EXCEPT !.pc = "returned",
                                     !.ret = cachedChunks[1], !.path = "hit"]]
             /\ UNCHANGED <<directory, cachedChunks, cacheTimestamp>>
        ELSE IF directory = None
        THEN /\ directory' = Some(<<>>)
             /\ cachedChunks' = Some(<<>>)
             /\ cacheTimestamp' = now
             /\ loadCall' = [loadCall EXCEPT ![c] =
                  [NoLoadCall EXCEPT !.pc = "returned", !.path = "mkdir"]]
        ELSE LET files == [k \in 1..Len(directory[1]) |-> directory[1][k].name]
                 run == ReadFiles(directory[1], files, 1, <<>>)
             IN /\ loadCall' = [loadCall EXCEPT ![c] =
                     IF run.pc = "returned"
                     THEN [NoLoadCall EXCEPT !.pc = "returned", !.ret = run.allChunks,
                                             !.path = "read"]
                     ELSE [pc |-> run.pc, now |-> now, files |-> files,
                           pos |-> run.pos, buffer |-> run.buffer,
                           allChunks |-> run.allChunks, ret |-> <<>>,
                           path |-> "read"]]
                /\ CacheWrite(run, now)
                /\ UNCHANGED directory
  /\ UNCHANGED <<clock, icdVars, codingVars>>

\* The parser settles: the text of the PDF chunked, or the file skipped when
\* parsing threw; then the loop goes on to the next await or to the end.
ResumeLoadAllDocs(c, parsed) ==
  /\ loadCall[c].pc = "parsing"
  /\ LET call == loadCall[c]
         chunks == IF parsed THEN chunkText(call.buffer, call.files[call.pos]) ELSE <<>>
         run == ReadFiles(directory[1], call.files, call.pos + 1,
                          call.allChunks \o chunks)
     IN /\ loadCall' = [loadCall EXCEPT ![c] =
             IF run.pc = "returned"
             THEN [NoLoadCall EXCEPT !.pc = "returned", !.ret = run.allChunks,
                                     !.path = "read"]
             ELSE [call EXCEPT !.pos = run.pos, !.buffer = run.buffer,
                               !.allChunks = run.allChunks]]
        /\ CacheWrite(run, call.now)
  /\ UNCHANGED <<directory, clock, invalidated, icdVars, codingVars>>

\* invalidateRefDocsCache()
invalidateRefDocsCache ==
  /\ cachedChunks' = None
  /\ cacheTimestamp' = 0
  /\ invalidated' = TRUE
  /\ UNCHANGED <<directory, clock, loadCall, icdVars, codingVars>>

\* A reference document is replaced by a new version.
WriteDoc(k) ==
  /\ directory # None
  /\ k \in 1..Len(directory[1])
  /\ directory[1][k].text # "new"
  /\ directory' = Some([directory[1] EXCEPT ![k].text = "new"])
  /\ UNCHANGED <<cachedChunks, cacheTimestamp, clock, loadCall, invalidated,
                 icdVars, codingVars>>

\* Date.now() moves on by half the lifetime of the cache.
Tick ==
  /\ clock < CACHE_TTL + MaxTicks * (CACHE_TTL \div 2)
  /\ clock' = clock + CACHE_TTL \div 2
  /\ UNCHANGED <<directory, cachedChunks, cacheTimestamp, loadCall, invalidated,
                 icdVars, codingVars>>

\* The reference directory: missing, empty, or one or two documents.
PdfDoc == [name |-> "a.pdf", ext |-> "pdf", text |-> "old"]
TxtDoc == [name |-> "b.txt", ext |-> "txt", text |-> "old"]
EmptyPdfDoc == [name |-> "c.pdf", ext |-> "pdf", text |-> ""]
OtherDoc == [name |-> "d.bin", ext |-> "bin", text |-> "old"]

Directories ==
  { None, Some(<<>>), Some(<<PdfDoc>>), Some(<<TxtDoc>>), Some(<<TxtDoc, PdfDoc>>),
    Some(<<EmptyPdfDoc, OtherDoc>>) }

InitDocs ==
  /\ IcdFresh({ << >> })
  /\ CodingIdle
  /\ directory \in Directories
  /\ cachedChunks = None
  /\ cacheTimestamp = 0
  /\ clock = CACHE_TTL
  /\ loadCall = [c \in Callers |-> NoLoadCall]
  /\ invalidated = FALSE

NextDocs ==
  \/ \E c \in Callers : StartLoadAllDocs(c)
  \/ \E c \in Callers, parsed \in BOOLEAN : ResumeLoadAllDocs(c, parsed)
  \/ invalidateRefDocsCache
  \/ \E k \in 1..2 : WriteDoc(k)
  \/ Tick

SpecDocs == InitDocs /\ [][NextDocs]_vars

\* ------------------------------------------------- the two pure functions
\* A synchronous call of a pure helper: the caller holds the argument when
\* the behaviour starts, the action applies the function, Return ends the call.
InitPure(requests) ==
  /\ source = <<>>
  /\ icd10Database = None
  /\ keywordIndex = None
  /\ codeIndex = None
  /\ isLoading = FALSE
  /\ loadPromise = None
  /\ promises = <<>>
  /\ pc = [c \in Callers |-> IF c = 1 THEN "called" ELSE "idle"]
  /\ req \in {[c \in Callers |-> IF c = 1 THEN r ELSE NoReq] : r \in requests}
  /\ awaited = [c \in Callers |-> 0]
  /\ result = [c \in Callers |-> NoResult]
  /\ iter = [c \in Callers |-> 0]
  /\ CodingIdle
  /\ DocsIdle

\* code strings: every string up to MaxCodeLen over letters of both cases, a
\* digit and the separators, and two spellings of one code
CodeAlphabet == {"j", "J", "1", ".", "-", " ", "\t"}
NormalizeInputs ==
  SeqsUpTo(CodeAlphabet, MaxCodeLen)
    \cup { <<"J","1","8",".","9">>, <<"j"," ","1","8","-","9">> }

NormalizeRequests == {[op |-> "normalizeCode", arg |-> a, max |-> 0] : a \in NormalizeInputs}

ApplyNormalizeCode(c) ==
  /\ pc[c] = "called"
  /\ req[c].op = "normalizeCode"
  /\ pc' = [pc EXCEPT ![c] = "returned"]
  /\ result' = [result EXCEPT ![c] =
                  [ret |-> normalizeCode(req[c].arg), scanned |-> <<>>, error |-> "none"]]
  /\ UNCHANGED <<codingVars, docVars, source, icd10Database, keywordIndex, codeIndex, isLoading,
                 loadPromise, promises, req, awaited, iter>>

InitNormalize == InitPure(NormalizeRequests)

NextNormalize ==
  \/ ApplyNormalizeCode(1)
  \/ Return(1)

SpecNormalize == InitNormalize /\ [][NextNormalize]_vars

\* texts: every string up to MaxTextLen over letters of both cases (enough to
\* spell the stop word "the" and other words), punctuation and a space, and
\* two descriptions
TextAlphabet == {"t", "h", "e", "T", "a", "-", " "}
TokenizeInputs ==
  SeqsUpTo(TextAlphabet, MaxTextLen)
    \cup { <<"P","n","e","u","m","o","n","i","a",","," ","u","n","s","p","e","c","i","f","i","e","d"," ","o","r","g","a","n","i","s","m">>,
           <<"T","H","E"," ","H","e","a","t","-","t","h","a","t">> }

TokenizeRequests == {[op |-> "extractKeywords", arg |-> a, max |-> 0] : a \in TokenizeInputs}

ApplyExtractKeywords(c) ==
  /\ pc[c] = "called"
  /\ req[c].op = "extractKeywords"
  /\ pc' = [pc EXCEPT ![c] = "returned"]
  /\ result' = [result EXCEPT ![c] =
                  [ret |-> extractKeywords(req[c].arg), scanned |-> <<>>, error |-> "none"]]
  /\ UNCHANGED <<codingVars, docVars, source, icd10Database, keywordIndex, codeIndex, isLoading,
                 loadPromise, promises, req, awaited, iter>>

InitTokenize == InitPure(TokenizeRequests)

NextTokenize ==
  \/ ApplyExtractKeywords(1)
  \/ Return(1)

SpecTokenize == InitTokenize /\ [][NextTokenize]_vars

\* ------------------------------------------------------ claim vocabulary
Range(q) == {q[i] : i \in 1..Len(q)}

\* number of positions of q that hold x
Count(q, x) == Cardinality({i \in 1..Len(q) : q[i] = x})

\* sum of a sequence of numbers
RECURSIVE SumSeq(_)
SumSeq(q) == IF q = <<>> THEN 0 ELSE Head(q) + SumSeq(Tail(q))

Loaded == icd10Database # None
Db == icd10Database[1]
KIndex == keywordIndex[1]

Returned(c, op) == pc[c] = "returned" /\ req[c].op = op

\* the catalog entries a search result may stand for
EntriesOf(r) == {i \in 1..Len(Db) : Db[i].code = r.code /\ Db[i].desc = r.description}

\* indices listed under keyword k (with repetitions), <<>> if k is not a key
Listed(k) == IF MapHas(KIndex, k) THEN MapGet(KIndex, k) ELSE <<>>

\* indexed keywords that start with t and differ from it
LongerKeywords(t) == {k \in MapKeys(KIndex) : StartsWith(k, t) /\ k # t}

\* ------------------------------------------------------------------- C1
\* C1 (as claimed): callers whose operations overlap before the catalog is
\* loaded share one load: no two callers that are suspended at the same time
\* await two different load attempts.
OverlappingCallersShareOneLoad ==
  \A c1 \in Callers, c2 \in Callers :
    (c1 # c2 /\ pc[c1] = "awaiting" /\ pc[c2] = "awaiting"
       /\ awaited[c1] # 0 /\ awaited[c2] # 0)
    => awaited[c1] = awaited[c2]

\* ------------------------------------------------------------------- C2
CatalogNull == icd10Database = None /\ codeIndex = None /\ keywordIndex = None
CatalogComplete == icd10Database # None /\ codeIndex # None /\ keywordIndex # None
SomeLoadFulfilled == \E i \in 1..Len(promises) : promises[i].state = "fulfilled"

\* C2: the three module variables are null together or set together in every
\* state a caller can observe, and they are all null as long as every load
\* attempt so far has failed.
FailedLoadLeavesCatalogNull ==
  /\ CatalogNull \/ CatalogComplete
  /\ ~SomeLoadFulfilled => CatalogNull

\* a load attempt has failed on a record the map rejects and its caller has
\* seen the error
FailedLoadObserved ==
  /\ Len(promises) > 0 /\ promises[Len(promises)].error = "TypeError"
  /\ \E c \in Callers : pc[c] = "threw" /\ awaited[c] = Len(promises)
  /\ CatalogNull

\* ------------------------------------------------------------------- C3
\* the data invariant the catalog source is published under: no two records
\* share a normalized code
CodesUnique ==
  \A i \in 1..Len(source), j \in 1..Len(source) :
    normalizeCode(source[i].code) = normalizeCode(source[j].code) => i = j

ClaimedScore(i, qk) ==
  SumSeq([j \in 1..Len(qk) |->
            (IF i \in Range(Listed(qk[j])) THEN 3 ELSE 0)
            + Cardinality({k \in LongerKeywords(qk[j]) : i \in Range(Listed(k))})])

\* C4 (as claimed): every result of searchByDescription carries the claimed
\* score of the entry it stands for.
SearchScoreIsClaimedScore ==
  \A c \in Callers :
    Returned(c, "searchByDescription") =>
      \A p \in 1..Len(result[c].ret) :
        \E i \in EntriesOf(result[c].ret[p]) :
          result[c].ret[p].score = ClaimedScore(i, extractKeywords(req[c].arg))

\* ------------------------------------------------------------------- C5
\* the score the code accumulates for entry i: 3 per listing under a query
\* token, 1 per listing under a longer keyword, summed over the query tokens
AccumulatedScore(i, qk) ==
  SumSeq([j \in 1..Len(qk) |->
            3 * Count(Listed(qk[j]), i)
            + SumSeq([n \in 1..Len(KIndex) |->
                        IF KIndex[n].key \in LongerKeywords(qk[j])
                        THEN Count(KIndex[n].val, i) ELSE 0])])

\* C5: searchByDescription returns at most maxResults results, in
\* non-increasing score order, each of matchType keyword with the positive
\* score of a catalog entry, and every entry that scores more than a returned
\* one is returned too.
SearchReturnsTopByScore ==
  \A c \in Callers :
    Returned(c, "searchByDescription") =>
      LET ret == result[c].ret
          qk == extractKeywords(req[c].arg)
          scored == {i \in 1..Len(Db) : AccumulatedScore(i, qk) > 0}
      IN /\ Len(ret) =< req[c].max
         /\ Len(ret) = Min(req[c].max, Cardinality(scored))
         /\ \A p \in 1..Len(ret) :
              /\ ret[p].score > 0
              /\ ret[p].matchType = "keyword"
              /\ \E i \in EntriesOf(ret[p]) : AccumulatedScore(i, qk) = ret[p].score
              /\ p < Len(ret) => ret[p].score >= ret[p + 1].score
              /\ Cardinality({i \in scored : AccumulatedScore(i, qk) > ret[p].score})
                   = Cardinality({n \in 1..Len(ret) : ret[n].score > ret[p].score})

\* a search cut off by maxResults: both entries score, the second entry of
\* the catalog scores more and is the one returned
SearchTruncatedAndRanked ==
  \E c \in Callers :
    /\ Returned(c, "searchByDescription")
    /\ req[c].max = 1 /\ Len(result[c].ret) = 1 /\ Len(Db) = 2
    /\ LET qk == extractKeywords(req[c].arg)
       IN /\ AccumulatedScore(1, qk) > 0
          /\ AccumulatedScore(2, qk) > AccumulatedScore(1, qk)
          /\ result[c].ret[1].score = AccumulatedScore(2, qk)

\* ------------------------------------------------------------------- C6
HasKeyword(r, t) == t \in Range(extractKeywords(r.description))
HasLongerKeyword(r, t) ==
  \E k \in Range(extractKeywords(r.description)) : StartsWith(k, t) /\ k # t

\* C6 (as claimed): for a single-token query t, a result whose keywords hold t
\* comes before, and scores more than, any result that matches only through
\* a longer keyword starting with t.
ExactHitRanksAbovePrefixHit ==
  \A c \in Callers :
    (Returned(c, "searchByDescription") /\ Len(extractKeywords(req[c].arg)) = 1) =>
      LET t == extractKeywords(req[c].arg)[1]
          ret == result[c].ret
      IN \A a \in 1..Len(ret), b \in 1..Len(ret) :
           (HasKeyword(ret[a], t) /\ ~HasKeyword(ret[b], t) /\ HasLongerKeyword(ret[b], t))
           => (a < b /\ ret[a].score > ret[b].score)

\* ------------------------------------------------------------------- C7
\* length of the longest common leading prefix of a and b
CommonPrefixLen(a, b) ==
  CHOOSE n \in 0..Min(Len(a), Len(b)) :
    /\ SubSeq(a, 1, n) = SubSeq(b, 1, n)
    /\ \A m \in (n + 1)..Min(Len(a), Len(b)) : SubSeq(a, 1, m) # SubSeq(b, 1, m)

\* C7 (as claimed): the results of findSimilarCodes are in non-increasing
\* order of the prefix their normalized code shares with the normalized
\* input, and each score is a prefix length at which its entry matches.
SimilarSortedBySharedPrefix ==
  \A c \in Callers :
    Returned(c, "findSimilarCodes") =>
      LET ret == result[c].ret
          normalized == normalizeCode(req[c].arg)
      IN /\ \A a \in 1..Len(ret), b \in 1..Len(ret) :
              a < b => CommonPrefixLen(normalizeCode(ret[a].code), normalized)
                         >= CommonPrefixLen(normalizeCode(ret[b].code), normalized)
         /\ \A p \in 1..Len(ret) :
              StartsWith(normalizeCode(ret[p].code), Slice0(normalized, ret[p].score))

\* ------------------------------------------------------------------- C8
\* C8: findSimilarCodes returns at most maxResults results; the prefix
\* lengths it scans run downwards from the length of the normalized input,
\* none is below 3, every result comes from a scanned length, and a length
\* is scanned only if the longer lengths yielded fewer than maxResults
\* results.
SimilarScansOnlyWhileShort ==
  \A c \in Callers :
    Returned(c, "findSimilarCodes") =>
      LET ret == result[c].ret
          scanned == result[c].scanned
          normalized == normalizeCode(req[c].arg)
      IN /\ Len(ret) =< req[c].max
         /\ \A k \in 1..Len(scanned) :
              /\ scanned[k].prefixLen >= 3
              /\ scanned[k].prefixLen = Len(normalized) - (k - 1)
              /\ Cardinality({p \in 1..Len(ret) : ret[p].score > scanned[k].prefixLen})
                   < req[c].max
         /\ \A p \in 1..Len(ret) :
              \E k \in 1..Len(scanned) : scanned[k].prefixLen = ret[p].score

\* the scan went from one prefix length to a shorter one and stopped above 3
\* because maxResults was reached
SimilarStoppedWhenFull ==
  \E c \in Callers :
    /\ Returned(c, "findSimilarCodes")
    /\ Len(result[c].scanned) >= 2
    /\ result[c].scanned[Len(result[c].scanned)].prefixLen > 3
    /\ req[c].max > 0 /\ Len(result[c].ret) = req[c].max

\* ------------------------------------------------------------------- C9
\* C9: no result of findSimilarCodes has the normalized code of the input;
\* each has matchType partial_code and a score of at least 3 such that its
\* normalized code starts with that many leading characters of the
\* normalized input.
SimilarExcludesInputAndSharesPrefix ==
  \A c \in Callers :
    Returned(c, "findSimilarCodes") =>
      LET ret == result[c].ret
          normalized == normalizeCode(req[c].arg)
      IN \A p \in 1..Len(ret) :
           /\ normalizeCode(ret[p].code) # normalized
           /\ ret[p].matchType = "partial_code"
           /\ ret[p].score >= 3 /\ ret[p].score =< Len(normalized)
           /\ StartsWith(normalizeCode(ret[p].code), Slice0(normalized, ret[p].score))

\* the catalog holds the input code itself and a sibling, and the sibling is
\* returned
SimilarFoundBesideInput ==
  \E c \in Callers :
    /\ Returned(c, "findSimilarCodes")
    /\ Len(result[c].ret) > 0
    /\ \E i \in 1..Len(Db) : Db[i].normalizedCode = normalizeCode(req[c].arg)

\* ------------------------------------------------------------------ C10
SourceTokens == UNION {Range(extractKeywords(source[i].desc)) : i \in 1..Len(source)}
QueryTokens == UNION {Range(extractKeywords(q)) : q \in QueryPool}

\* C10: once loaded, every entry's keywords are the tokenizer's output on its
\* description, and for every keyword k (indexed, produced by a description
\* or produced by a query) entry i is listed under k exactly if the
\* tokenizer produces k from the description of i.
KeywordIndexMirrorsTokenizer ==
  Loaded =>
    /\ Len(Db) = Len(source)
    /\ \A i \in 1..Len(Db) : Db[i].keywords = extractKeywords(source[i].desc)
    /\ \A k \in MapKeys(KIndex) \cup SourceTokens \cup QueryTokens :
         \A i \in 1..Len(Db) :
           i \in Range(Listed(k)) <=> k \in Range(extractKeywords(source[i].desc))

\* a query token is indexed for two entries, and the tokenizer dropped a
\* piece (short, empty or a stop word) of some description
TwoEntriesShareQueryToken ==
  /\ Loaded
  /\ \E k \in QueryTokens : Cardinality(Range(Listed(k))) = 2
  /\ \E i \in 1..Len(Db) :
       Len(Db[i].keywords) < Len(SplitWhitespace(ReplacePunct(toLowerCase(Db[i].desc))))

\* ------------------------------------------------------------------ C11
\* C11: once the catalog is loaded, a further call of a load-triggering
\* operation creates no load promise (no read, no parse): the source has been
\* parsed exactly once, and the database and both indexes are, after every
\* call, the ones built from the source.
ParsedOnceThenReused ==
  /\ [](Loaded =>
          /\ Len(promises) = 1
          /\ icd10Database = Some(MapEntries(source))
          /\ codeIndex = Some(BuildCodeIndex(MapEntries(source)))
          /\ keywordIndex = Some(BuildKeywordIndex(MapEntries(source))))
  /\ [][Loaded => (promises' = promises /\ loadPromise' = loadPromise)]_vars

\* a later call found the catalog loaded and has returned
LaterCallReturned ==
  \E c \in Callers :
    /\ pc[c] = "returned" /\ awaited[c] = 0 /\ Loaded
    /\ req[c].op \in {"ensureLoaded", "lookupCode", "searchByDescription",
                      "findSimilarCodes", "getDatabaseStats"}
    /\ Len(source) > 0

\* ------------------------------------------------------------------ C12
FailingOutcomes == ReadOutcomes \ {"ok"}

\* C12: a caller whose load attempt was rejected leaves its operation with
\* that attempt's error, and no further attempt is made while it does; a
\* call that finds the catalog unloaded starts exactly one new attempt, which
\* fails only on a failing source and otherwise leaves the catalog loaded.
FailurePropagatesNextCallRetries ==
  /\ [][\A c \in Callers :
          (pc[c] = "awaiting" /\ awaited[c] # 0
             /\ promises[awaited[c]].state = "rejected" /\ pc'[c] # "awaiting")
          => /\ pc'[c] = "threw"
             /\ result'[c].error = promises[awaited[c]].error
             /\ promises' = promises]_vars
  /\ [][\A c \in Callers :
          (pc[c] = "idle" /\ pc'[c] = "awaiting" /\ ~Loaded)
          => /\ Len(promises') = Len(promises) + 1
             /\ awaited'[c] = Len(promises')
             /\ promises'[Len(promises')].state = "fulfilled" => CatalogComplete'
             /\ promises'[Len(promises')].state = "rejected" =>
                  promises'[Len(promises')].error \in FailingOutcomes]_vars

\* a call has returned from the attempt that followed a failed attempt
RetryAfterFailureLoaded ==
  \E c \in Callers :
    /\ pc[c] = "returned" /\ awaited[c] >= 2 /\ Loaded
    /\ promises[awaited[c] - 1].state = "rejected"
    /\ promises[awaited[c]].state = "fulfilled"

\* ------------------------------------------------------------------ C13
\* C13: a caller whose load failed receives an error of the distinct kind
\* CatalogLoadError, not the read or parse error itself.
LoadFailsWithCatalogLoadError ==
  \A c \in Callers : pc[c] = "threw" => result[c].error = "CatalogLoadError"

\* ------------------------------------------------------------------ C14
QueryOps == {"lookupCode", "searchByDescription", "findSimilarCodes"}

\* no entry of the loaded catalog has the normalized form of `code`
MatchesNoCode(code) ==
  \A i \in 1..Len(Db) : normalizeCode(Db[i].code) # normalizeCode(code)

\* C14: with the catalog loaded, lookupCode, searchByDescription and
\* findSimilarCodes end by returning, never by raising, whatever the string;
\* lookupCode of a string that matches no normalized code returns null.
QueriesNeverRaiseOnceLoaded ==
  /\ [][\A c \in Callers :
          (Loaded /\ req[c].op \in QueryOps /\ pc[c] = "awaiting"
             /\ pc'[c] # "awaiting")
          => pc'[c] = "returned" /\ result'[c].error = "none"]_vars
  /\ [](\A c \in Callers :
          (Returned(c, "lookupCode") /\ MatchesNoCode(req[c].arg))
          => result[c].ret = None)

\* a purely numeric code was looked up in a non-empty catalog and missed
NumericLookupMissed ==
  \E c \in Callers :
    /\ Returned(c, "lookupCode") /\ Len(Db) > 0
    /\ req[c].arg = <<"1", "2", "3">>
    /\ result[c].ret = None

\* ------------------------------------------------------------------ C15
\* the maximal runs of word characters of s, lowercased
WordRuns(s) ==
  LET low == toLowerCase(s)
      n == Len(s)
  IN {SubSeq(low, p[1], p[2]) :
        p \in {p \in (1..n) \X (1..n) :
                 /\ p[1] <= p[2]
                 /\ \A k \in p[1]..p[2] : IsWord(low[k])
                 /\ p[1] = 1 \/ ~IsWord(low[p[1] - 1])
                 /\ p[2] = n \/ ~IsWord(low[p[2] + 1])}}

\* the query has no token: every word run is too short or a stop word
NoUsableToken(q) == \A w \in WordRuns(q) : Len(w) < 3 \/ w \in STOP_WORDS

\* C15: searchByDescription returns the empty list for a query that yields
\* no token (empty, punctuation only, stop words or short words only),
\* whatever maxResults is.
TokenlessQueryFindsNothing ==
  \A c \in Callers :
    (Returned(c, "searchByDescription") /\ NoUsableToken(req[c].arg))
    => result[c].ret = <<>>

\* a two-letter query that is a prefix of an indexed keyword was searched
ShortQuerySearched ==
  \E c \in Callers :
    /\ Returned(c, "searchByDescription")
    /\ req[c].arg = <<"c", "a">> /\ req[c].max > 0
    /\ \E k \in MapKeys(KIndex) : StartsWith(k, req[c].arg)
    /\ result[c].ret = <<>>

\* ------------------------------------------------------------------ C16
\* C16: an operation that returns (with whatever value, empty or not) has
\* run on a completely loaded catalog; an operation whose load attempt was
\* rejected ends by raising that attempt's error and returns no value.
UnavailableIsAnErrorNotEmpty ==
  /\ [](\A c \in Callers :
          /\ pc[c] = "returned" => CatalogComplete /\ result[c].error = "none"
          /\ pc[c] = "threw" =>
               /\ promises[awaited[c]].state = "rejected"
               /\ result[c].error \in FailingOutcomes)
  /\ [][\A c \in Callers :
          (pc[c] = "awaiting" /\ awaited[c] # 0
             /\ promises[awaited[c]].state = "rejected" /\ pc'[c] # "awaiting")
          => pc'[c] = "threw"]_vars

\* getICDContextForAI raised on an unreadable source, and the empty string
\* it would return for the same query is not what the caller holds
ContextQueryRaised ==
  \E c \in Callers :
    /\ pc[c] = "threw" /\ req[c].op = "getICDContextForAI"
    /\ result[c].error = "ENOENT" /\ ~Loaded

\* ------------------------------------------------------------------ C17
\* the catalog as a load of the source builds it
FreshDb == Some(MapEntries(source))
FreshCodeIndex == Some(BuildCodeIndex(MapEntries(source)))
FreshKeywordIndex == Some(BuildKeywordIndex(MapEntries(source)))

\* C17: once loaded, no step changes the entry list, the code index or the
\* keyword index, and what a query returns depends on the query and the
\* source alone: it is what the freshly loaded catalog gives, however many
\* operations ran before.
CatalogReadOnlyAfterLoad ==
  /\ [][Loaded => UNCHANGED <<icd10Database, codeIndex, keywordIndex>>]_vars
  /\ [](\A c \in Callers :
          /\ Returned(c, "lookupCode") =>
               result[c].ret = lookupCode(FreshDb, FreshCodeIndex, req[c].arg)
          /\ Returned(c, "searchByDescription") =>
               result[c].ret = searchByDescription(FreshDb, FreshKeywordIndex,
                                                   req[c].arg, req[c].max)
          /\ Returned(c, "findSimilarCodes") =>
               result[c].ret = findSimilarCodes(FreshDb, req[c].arg, req[c].max).results)

\* a search that found the catalog already loaded by an earlier operation
\* has returned a match
SearchOnSharedCatalogReturned ==
  \E c \in Callers :
    /\ Returned(c, "searchByDescription") /\ awaited[c] = 0
    /\ Len(promises) = 1 /\ result[c].ret # <<>>

\* ------------------------------------------------------------------ C18
\* C18: findSimilarCodes returns the empty list, without scanning the
\* catalog, when the normalized input has fewer than 3 characters.
ShortCodeHasNoSimilar ==
  \A c \in Callers :
    (Returned(c, "findSimilarCodes") /\ Len(normalizeCode(req[c].arg)) < 3)
    => result[c].ret = <<>> /\ result[c].scanned = <<>>

\* a three-character input that normalizes to two characters was given, with
\* room for results and a catalog code that starts with those two characters
ShortCodeBesideLongerCodes ==
  \E c \in Callers :
    /\ Returned(c, "findSimilarCodes")
    /\ req[c].arg = <<"j", "-", "1">> /\ req[c].max > 0
    /\ \E i \in 1..Len(Db) : StartsWith(normalizeCode(Db[i].code), <<"J", "1">>)
    /\ result[c].ret = <<>>

\* ------------------------------------------------------------------ C19
Separators == {".", "-", " ", "\t"}

\* s with character ch inserted after position i
InsertAt(s, i, ch) == SubSeq(s, 1, i) \o <<ch>> \o SubSeq(s, i + 1, Len(s))

\* s with the case of the letter at position i swapped
SwapCaseAt(s, i) ==
  [s EXCEPT ![i] = IF IsIn(s[i], LowerLetters) THEN UpperChar(s[i]) ELSE LowerChar(s[i])]

\* spellings of s that differ by one separator or the case of one letter
Respellings(s) ==
  {InsertAt(s, i, ch) : i \in 0..Len(s), ch \in Separators}
    \cup {SwapCaseAt(s, i) : i \in 1..Len(s)}

\* C19: the result of normalizeCode is a fixed point of normalizeCode, holds
\* no separator and no lowercase letter, and is the result for every
\* respelling of the input by case, dots, hyphens or whitespace; "J18.9" and
\* "j 18-9" both give "J189".
NormalizeCodeCanonical ==
  \A c \in Callers :
    Returned(c, "normalizeCode") =>
      LET code == req[c].arg
          out == result[c].ret
      IN /\ normalizeCode(out) = out
         /\ \A k \in 1..Len(out) : out[k] \notin Separators /\ ~IsIn(out[k], LowerLetters)
         /\ \A v \in Respellings(code) : normalizeCode(v) = out
         /\ code \in { <<"J","1","8",".","9">>, <<"j"," ","1","8","-","9">> }
              => out = <<"J","1","8","9">>

\* the lowercase, spaced and hyphenated spelling has been normalized
SpacedSpellingNormalized ==
  \E c \in Callers :
    /\ Returned(c, "normalizeCode")
    /\ req[c].arg = <<"j"," ","1","8","-","9">>
    /\ result[c].ret = <<"J","1","8","9">>

\* ------------------------------------------------------------------ C20
\* C20: every token extractKeywords returns has at least 3 characters and is
\* no stop word; the tokens are exactly the lowercased word runs of the text
\* that pass both tests, so they are fixed by the text; and the text in upper
\* case, in lower case or with the case of one letter swapped gives the
\* same tokens.  "Pneumonia, unspecified organism" loses "unspecified".
TokensLongLowercaseNoStopWords ==
  \A c \in Callers :
    Returned(c, "extractKeywords") =>
      LET text == req[c].arg
          out == result[c].ret
      IN /\ \A k \in 1..Len(out) : Len(out[k]) >= 3 /\ out[k] \notin STOP_WORDS
         /\ Range(out) = {w \in WordRuns(text) : Len(w) >= 3 /\ w \notin STOP_WORDS}
         /\ extractKeywords(toUpperCase(text)) = out
         /\ extractKeywords(toLowerCase(text)) = out
         /\ \A i \in 1..Len(text) : extractKeywords(SwapCaseAt(text, i)) = out
         /\ text = <<"P","n","e","u","m","o","n","i","a",","," ","u","n","s","p","e","c","i","f","i","e","d"," ","o","r","g","a","n","i","s","m">>
              => out = << <<"p","n","e","u","m","o","n","i","a">>, <<"o","r","g","a","n","i","s","m">> >>

\* a capitalised description with a stop word has been tokenized
DescriptionTokenized ==
  \E c \in Callers :
    /\ Returned(c, "extractKeywords")
    /\ req[c].arg = <<"P","n","e","u","m","o","n","i","a",","," ","u","n","s","p","e","c","i","f","i","e","d"," ","o","r","g","a","n","i","s","m">>
    /\ Len(result[c].ret) = 2

\* ------------------------------------------------------------------ C21
\* C21: the map batchValidateCodes returns has one key per distinct input
\* string, the strings as supplied, and each key maps to what lookupCode
\* gives for it: an entry whose normalized code is the key's, or null when
\* the catalog has no such code.
BatchKeyedByInputAsSupplied ==
  \A c \in Callers :
    Returned(c, "batchValidateCodes") =>
      LET codes == req[c].arg
          out == result[c].ret
      IN /\ MapKeys(out) = Range(codes)
         /\ Len(out) = Cardinality(Range(codes))
         /\ \A k \in Range(codes) :
              /\ MapGet(out, k) = lookupCode(icd10Database, codeIndex, k)
              /\ MatchesNoCode(k) <=> MapGet(out, k) = None
              /\ MapGet(out, k) # None =>
                   normalizeCode(MapGet(out, k)[1].code) = normalizeCode(k)

\* a batch with a repeated code and a differently spelled code has returned,
\* the repeated code found in the catalog
BatchWithRepeatedCodeReturned ==
  \E c \in Callers :
    /\ Returned(c, "batchValidateCodes")
    /\ Len(req[c].arg) = 3 /\ Len(result[c].ret) = 2
    /\ MapGet(result[c].ret, <<"J","1","8",".","9">>) # None

\* ------------------------------------------------------------------ C22
\* the lines of a text: the pieces between line breaks
LinesOf(s) ==
  LET breaks == {i \in 1..Len(s) : s[i] = "\n"}
      n == Cardinality(breaks)
      Brk(j) == CHOOSE i \in breaks : Cardinality({x \in breaks : x < i}) = j - 1
  IN [j \in 1..(n + 1) |->
        SubSeq(s, IF j = 1 THEN 1 ELSE Brk(j - 1) + 1,
                  IF j = n + 1 THEN Len(s) ELSE Brk(j) - 1)]

\* C22: getICDContextForAI returns the empty string exactly when the search
\* for the same text and size finds nothing; otherwise its first line is the
\* header and the lines after it are "CODE: description", one per search
\* result, in the order of the results.
ContextIsHeaderPlusResultLines ==
  \A c \in Callers :
    Returned(c, "getICDContextForAI") =>
      LET found == searchByDescription(icd10Database, keywordIndex, req[c].arg, req[c].max)
          out == result[c].ret
          lines == LinesOf(out)
      IN /\ out = <<>> <=> found = <<>>
         /\ found # <<>> =>
              /\ Len(lines) = Len(found) + 1
              /\ lines[1] = ContextHeader
              /\ \A i \in 1..Len(found) :
                   lines[i + 1] = found[i].code \o <<":", " ">> \o found[i].description

\* a context of two result lines has been returned
ContextOfTwoLinesReturned ==
  \E c \in Callers :
    /\ Returned(c, "getICDContextForAI")
    /\ Len(searchByDescription(icd10Database, keywordIndex, req[c].arg, req[c].max)) = 2
    /\ result[c].ret # <<>>

\* ------------------------------------------------------------------ C23
\* C23: getDatabaseStats reports loaded = false when it is called before the
\* first load (the call found the catalog unloaded) and loaded = true when
\* it is called after it.
StatsLoadedFalseBeforeFirstLoad ==
  \A c \in Callers :
    Returned(c, "getDatabaseStats") => (result[c].ret.loaded <=> awaited[c] = 0)

\* C23 (amended): getDatabaseStats loads the catalog itself before it reads
\* the flag, so whenever it returns, loaded is true and the counts are those
\* of the loaded catalog, also for a call made before any load.
StatsReturnsLoadedTrue ==
  \A c \in Callers :
    Returned(c, "getDatabaseStats") =>
      /\ result[c].ret.loaded = TRUE
      /\ Loaded
      /\ result[c].ret.totalCodes = Len(source)

\* getDatabaseStats was called on an unloaded catalog, after a failed
\* attempt, and has returned
StatsCalledBeforeLoadReturned ==
  \E c \in Callers :
    /\ Returned(c, "getDatabaseStats") /\ awaited[c] = 2
    /\ promises[1].state = "rejected" /\ Len(source) > 0

\* ------------------------------------------------------------------ C24
\* C24: on the catalog [J18.9 pneumonia, J44.0 chronic obstructive pulmonary
\* disease], searchByDescription("pneumonia", 5) returns exactly one result,
\* J18.9 with score 3 and matchType keyword, and findSimilarCodes("J18.0", 5)
\* returns J18.9 with score 3.
ScenarioResultsAsStated ==
  \A c \in Callers :
    source = <<Pneumonia, Copd>> =>
      /\ (/\ Returned(c, "searchByDescription") /\ req[c].max = 5
          /\ req[c].arg = <<"p","n","e","u","m","o","n","i","a">>)
         => result[c].ret = << [code |-> Pneumonia.code,
                                description |-> Pneumonia.desc,
                                score |-> 3, matchType |-> "keyword"] >>
      /\ (/\ Returned(c, "findSimilarCodes") /\ req[c].max = 5
          /\ req[c].arg = <<"J","1","8",".","0">>)
         => /\ Len(result[c].ret) = 1
            /\ result[c].ret[1].code = Pneumonia.code
            /\ result[c].ret[1].score = 3
            /\ result[c].scanned = << [prefixLen |-> 4, before |-> 0],
                                      [prefixLen |-> 3, before |-> 0] >>

\* the search of the scenario has returned on the scenario's catalog
ScenarioSearchReturned ==
  \E c \in Callers :
    /\ source = <<Pneumonia, Copd>>
    /\ Returned(c, "searchByDescription") /\ req[c].max = 5
    /\ req[c].arg = <<"p","n","e","u","m","o","n","i","a">>
    /\ Len(result[c].ret) = 1

\* ------------------------------------------------------------------ C28
\* C28: no code appears twice in the list findSimilarCodes returns: an entry
\* added at a longer prefix is not added again at a shorter one.
SimilarCodesListedOnce ==
  \A c \in Callers :
    Returned(c, "findSimilarCodes") =>
      \A p, q \in 1..Len(result[c].ret) :
        result[c].ret[p].code = result[c].ret[q].code => p = q

\* ------------------------------------------------------------------ C25
\* some entry of the loaded catalog has the normalized form of `code`
InCatalog(code) == Loaded /\ ~MatchesNoCode(code)

\* C25: a validated result whose code is not blank (the code's own test of
\* emptiness) names a code of the catalog or has confidence at most 0.5; a
\* corrected result carries the top match of searchByDescription on its
\* diagnosis text with limit 3 and confidence at most 0.75; an unknown code
\* is kept only when that search finds nothing.
InvalidCodeCorrectedOrCapped ==
  \A k \in 1..Len(allResults) :
    LET r == allResults[k]
        found == searchByDescription(icd10Database, keywordIndex, r.input_diagnosis, 3)
    IN ~IsBlank(r.icd_code) =>
         /\ InCatalog(r.icd_code) \/ r.confidence <= 50
         /\ r.notes \in {"verified", "corrected", "not_found"}
         /\ r.notes = "corrected" =>
              /\ found # <<>>
              /\ r.icd_code = found[1].code
              /\ r.official_description = found[1].description
              /\ r.confidence <= 75
              /\ InCatalog(r.icd_code)
         /\ ~InCatalog(r.icd_code) =>
              r.notes = "not_found" /\ found = <<>> /\ r.confidence <= 50

\* an unknown code given with high confidence was kept, no match being found
UnknownCodeKeptAndCapped ==
  \E k \in 1..Len(allResults) :
    /\ allResults[k].icd_code = <<"Z","Z","Z">>
    /\ allResults[k].notes = "not_found"
    /\ allResults[k].confidence = 50
    /\ Loaded /\ Len(Db) > 0

\* ------------------------------------------------------------------ C27
\* C27: what batchDiagnosisToCode returns holds, for every input item, at
\* least one result carrying that item's row, whatever the model answered.
EveryItemHasAResult ==
  bpc = "done" =>
    \A k \in 1..Len(diagnoses) :
      \E j \in 1..Len(allResults) : allResults[j].row = diagnoses[k].row

\* ------------------------------------------------------------------ C29
\* C29: a call issues at most one LLM call per chunk, so no more chunk calls
\* than items, and at most one retry per item, for every chunk size.
CallsWithinOnePerChunkAndItem ==
  /\ chunkCalls <= Len(diagnoses)
  /\ retryCalls <= Len(diagnoses)

\* ------------------------------------------------------------------ C26
\* C26: every result processDiagnosisCoding returns for a row and text some
\* diagnosis entry has carries the column of an entry with that row and text.
ResultColumnIsItsEntrysColumn ==
  coded # None =>
    \A i \in 1..Len(coded[1].results) :
      LET r == coded[1].results[i]
          same == {k \in 1..Len(diagnoses) : /\ diagnoses[k].row = r.row
                                             /\ diagnoses[k].diagnosis = r.input_diagnosis}
      IN same # {} => \E k \in same : diagnoses[k].column = r.column

\* ------------------------------------------------------------------ C30
\* C30: the first loadAllDocs call started after invalidateRefDocsCache has
\* returned does not return the cache: it reads the directory (or creates
\* it), whatever calls were in flight at the invalidation.
SearchAfterInvalidateRereads ==
  [][\A c \in Callers :
       (invalidated /\ StartLoadAllDocs(c)) => loadCall'[c].path # "hit"]_vars

====
